---- MODULE Spec2Model ----
(***************************************************************************)
(* KAsync: the Future / FutureWatcher / Executor / Execution engine.       *)
(*                                                                         *)
(* The engine is single threaded.  One action of this module is one turn   *)
(* of the event loop: a call of Job::exec(), the deferred completion of an *)
(* asynchronous continuation, the destruction of a guarded QObject, or one *)
(* call of a Future method by a task.  Everything the C++ code does        *)
(* synchronously inside such a call (watcher callbacks, runExecution of    *)
(* the following steps, nested Job::exec() calls) is part of the action    *)
(* and is computed by the recursive operators below, which pass the heap   *)
(* (futures, executions, contexts) along as a record.                      *)
(***************************************************************************)
EXTENDS Integers, Sequences, FiniteSets, TLC

VARIABLES
    chain,       \* the Executor chain of the Job, head first (Job::mExecutor and its mPrev links)
    alive,       \* the guarded QObjects that still exist
    futures,     \* FutureBase::PrivateBase of every Future, by id
    executions,  \* Private::Execution of every Future (same id), with observations
    contexts,    \* Private::ExecutionContext of every exec() call
    pending,     \* executions whose asynchronous continuation still holds its Future
    results,     \* the tail Executions returned by the Job::exec() calls so far
    notified,    \* per user FutureWatcher: number of futureReady() signals received
    assertOk,    \* FALSE once a Q_ASSERT condition of runExecution was false
    late,        \* number of Future calls made on an already finished Future
    early,       \* the user FutureWatchers bound while their Future was pending
    handles,     \* the user still holds the Job handles and the Futures exec() returned
    other,       \* the steps of a second Job b, before a.then(b) is called
    split,       \* after a.then(b): the number of steps that came from a; 0 before
    cells,       \* the shared objects the for-each lambdas capture (error, count, total)
    injected,    \* the Executors exec(initial) has linked in front of the head and not yet removed
    executors,   \* Executor objects by identity: their mPrev links and the Jobs' mExecutor
    holders      \* ContinuationHolder objects: mIndex and what lives in mStorage

vars == <<chain, alive, futures, executions, contexts, pending, results, notified, assertOk, late, early,
          handles, other, split, cells, injected, executors, holders>>

\* ------------------------------------------------------------------ bounds
\* longest Executor chain of the Job
MaxLen == 3
\* longest error list built with addError
MaxErrors == 2
\* number of user FutureWatchers
MaxWatchers == 2
\* number of calls made on a Future after it finished
MaxLate == 2
\* number of exec calls on the composed Jobs
MaxRuns == 2
\* longest list given to forEach and serialForEach
MaxList == 3
\* largest number of rounds after which the body of a dowhile loop asks to stop
MaxRounds == 3
\* number of then and onError calls on the Jobs whose Executors are followed by identity
MaxThen == 2
\* the delays of wait(delay), in turns of the event loop
MaxDelay == 4
\* the number of runs of a wait(delay) Job
MaxWaits == 3
\* longest list given to waitForCompletion
MaxInputs == 3
\* number of ContinuationHolder objects
MaxHolders == 3
\* number of continuations a ContinuationHolder has written over
MaxLost == 1

\* ------------------------------------------------------------------ values
\* the QObjects a Job may guard
Sentinels == {"a", "b"}

\* ExecutionFlag
Always == "Always"
ErrorCase == "ErrorCase"
GoodCase == "GoodCase"

\* struct Error
Error(code, message) == [errorCode |-> code, errorMessage |-> message]
\* Error(): errorCode 0
NoError == Error(0, "")
\* Error::operator bool
ErrorIsSet(error) == error.errorCode # 0

\* the value of a Future nobody has set, and a default constructed In()
NoValue == 0

\* a bool held by a Future: true is 1, false is 0
BoolValue(b) == IF b THEN 1 ELSE 0

\* the errors a task of value v reports
Err(v) == Error(v, "error")
Err2(v) == Error(v + 100, "second")

\* QPointer<FutureWatcherBase> of a deleted watcher
NullWatcher == [kind |-> "null", exec |-> 0]
\* the watcher Executor::exec binds to the Execution's own Future
SelfWatcher(e) == [kind |-> "self", exec |-> e]
\* the watcher Executor::exec binds to the predecessor's Future
PrevWatcher(e) == [kind |-> "prev", exec |-> e]
\* a FutureWatcher of user code
UserWatcher(w) == [kind |-> "user", exec |-> w]
\* a FutureWatcher of user code whose futureReady slot binds one more watcher to the
\* Future it watches
BinderWatcher(w) == [kind |-> "binder", exec |-> w]
\* a watcher waitForCompletion binds to an input Future; k is the cell of its counter
CountWatcher(k) == [kind |-> "count", exec |-> k]

\* a watcher EachExecutor::run binds to the Future of one element; k is the cell of
\* mFutureWatchers
EachWatcher(k) == [kind |-> "each", exec |-> k]

\* the objects the lambdas of one for-each or waitForCompletion call share: the first
\* Error, the counter, the number of inputs and the Future to finish; for
\* EachExecutor::run count is the size of mFutureWatchers, and order observes the
\* positions of the elements in the order in which their watchers fired
NewCell(future, total) ==
    [error |-> NoError, count |-> 0, total |-> total, future |-> future, order |-> <<>>,
     buffer |-> "valid"]

\* FutureBase::PrivateBase::PrivateBase, with two observations: the number of errors the
\* last setError call found on the list, and the memory the program reads the Future
\* and its watcher list from: "valid", "released" once an append moved the list
\* elsewhere and the block was handed out again, "torn" once the program has read a
\* block that was released and handed out again
NewFuture ==
    [finished |-> FALSE, value |-> NoValue, errors |-> <<>>, watchers |-> <<>>, found |-> 0,
     buffer |-> "valid"]

\* Execution::Execution, with the observations this model keeps per Execution
NewExecution(executor, prev, c, pos) ==
    [executor |-> executor, prevExecution |-> prev, context |-> c, step |-> pos,
     dispatched |-> 0, deadAtDispatch |-> FALSE,
     calls |-> 0, prevDoneAtCall |-> TRUE, errArg |-> NoError, inArg |-> NoValue,
     outcome |-> "none", deadAtDone |-> FALSE, orphanAtDone |-> FALSE,
     runsAtDone |-> 0, openAtCall |-> {}]

\* no Executor object is followed by identity
NoExecutors == [mPrev |-> <<>>, mExecutor |-> <<>>, calls |-> 0, runs |-> <<>>]

\* the heap the engine works on
State ==
    [futures |-> futures, executions |-> executions, contexts |-> contexts,
     pending |-> pending, notified |-> notified, assertOk |-> assertOk,
     alive |-> alive, cells |-> cells, injected |-> injected, ret |-> 0, reused |-> FALSE]

\* ------------------------------------------------------------------ Future
\* FutureBase::isFinished
IsFinished(fut) == fut.finished

\* FutureBase::hasError
HasError(fut) == fut.errors # <<>>

\* FutureBase::errorCode
ErrorCode(fut) == IF fut.errors = <<>> THEN 0 ELSE Head(fut.errors).errorCode

\* Future::setValue
SetValue(s, f, v) == [s EXCEPT !.futures[f].value = v]

\* FutureBase::addError
AddError(s, f, error) == [s EXCEPT !.futures[f].errors = Append(@, error)]

\* FutureBase::clearErrors
ClearErrors(s, f) == [s EXCEPT !.futures[f].errors = <<>>]

\* a detail::aggregateFutureValue that puts the new value in front
AggregateFutureValue_Prepends(s, in, out) ==
    SetValue(s, out, s.futures[in].value \o s.futures[out].value)

\* detail::aggregateFutureValue: out.setValue(out.value() + in.value())
AggregateFutureValue(s, in, out) ==
    SetValue(s, out, s.futures[out].value \o s.futures[in].value)

\* FutureBase::addWatcher
AddWatcher(s, f, w) == [s EXCEPT !.futures[f].watchers = Append(@, w)]

RECURSIVE SetFinished(_, _)
RECURSIVE NotifyWatchers(_, _, _, _)
RECURSIVE FutureReadyCallback(_, _, _)
RECURSIVE RunExecution(_, _, _)
RECURSIVE Run(_, _)
RECURSIVE ExecExecutor(_, _, _, _)

\* a setError that keeps the errors recorded before
SetError_Appends(s, f, error) ==
    SetFinished(AddError([s EXCEPT !.futures[f].found = Len(s.futures[f].errors)], f, error), f)

\* FutureBase::setError(const Error &)
SetError(s, f, error) ==
    LET s0 == [s EXCEPT !.futures[f].found = Len(s.futures[f].errors)]
    IN  SetFinished(AddError(ClearErrors(s0, f), f, error), f)

\* Future::setResult
SetResult(s, f, v) == SetFinished(SetValue(s, f, v), f)

\* a guard check that waits until every guarded object is gone
GuardIsBroken_AllDead(guards, live) == guards # {} /\ \A g \in guards : ~live[g]

\* ExecutionContext::guardIsBroken
GuardIsBroken(guards, live) == \E g \in guards : ~live[g]

\* FutureWatcherBase::setFutureImpl
SetFutureImpl(s, w, f) ==
    LET s1 == AddWatcher(s, f, w)
    IN  IF IsFinished(s1.futures[f])
        THEN FutureReadyCallback(s1, f, Len(s1.futures[f].watchers))
        ELSE s1

\* a setFinished without the early return
SetFinished_NoGuard(s, f) ==
    NotifyWatchers([s EXCEPT !.futures[f].finished = TRUE], f, 1, Len(s.futures[f].watchers))

\* FutureBase::setFinished
SetFinished(s, f) ==
    IF IsFinished(s.futures[f])
    THEN s
    ELSE NotifyWatchers([s EXCEPT !.futures[f].finished = TRUE], f, 1,
                        Len(s.futures[f].watchers))

\* delete context; future.setFinished(), for the QObject ctx a waitForCompletion Job
\* captures (0: the object is not followed). The object is kept with the shared
\* objects: buffer is "valid", "deleted" or "torn" (touched after its memory was handed
\* out again), count is the number of times it was deleted, total the number of calls
\* made on it after its deletion, and order maps the name "future<i>" to the counter
\* of the run whose watcher the property holds (0: none). The Executor of the step
\* names the object in its field cell. A second delete works on released memory
DeleteAndFinish(s, ctx, f) ==
    IF ctx = 0
    THEN SetFinished(s, f)
    ELSE IF s.cells[ctx].buffer = "valid"
    THEN SetFinished([s EXCEPT !.cells[ctx].buffer = "deleted", !.cells[ctx].count = @ + 1], f)
    ELSE IF s.reused
    THEN [s EXCEPT !.cells[ctx].buffer = "torn", !.cells[ctx].count = @ + 1]
    ELSE SetFinished([s EXCEPT !.cells[ctx].count = @ + 1], f)

\* the loop of FutureBase::setFinished over d->watchers: begin and end are taken once,
\* so the loop goes over the n watchers of the buffer it started on; a read from a
\* buffer that was released and handed out again ends the program
NotifyWatchers(s, f, k, n) ==
    IF k > n
    THEN [s EXCEPT !.futures[f].buffer = IF @ = "released" THEN "valid" ELSE @]
    ELSE IF s.futures[f].buffer # "valid"
    THEN [s EXCEPT !.futures[f].buffer = "torn"]
    ELSE NotifyWatchers(IF s.futures[f].watchers[k] = NullWatcher
                        THEN s
                        ELSE FutureReadyCallback(s, f, k),
                        f, k + 1, n)

\* QVector::append below a running loop of setFinished: when the list has to grow its
\* elements move to a new block and the old one, which the loop still reads, is
\* released; s.reused says whether the block is handed out again before the next read
AppendBelowLoop(s, f) ==
    IF s.reused THEN [s EXCEPT !.futures[f].buffer = "released"] ELSE s

\* FutureWatcherBase::futureReadyCallback and the slot connected to futureReady
FutureReadyCallback(s, f, k) ==
    LET w == s.futures[f].watchers[k]
        gone == [s EXCEPT !.futures[f].watchers[k] = NullWatcher]
    IN  CASE w.kind = "self" -> gone
          [] w.kind = "prev" ->
                RunExecution(gone, w.exec,
                             GuardIsBroken(gone.contexts[gone.executions[w.exec].context].guards,
                                           gone.alive))
          [] w.kind = "user" -> [s EXCEPT !.notified[w.exec] = @ + 1]
          [] w.kind = "binder" ->
                AppendBelowLoop(SetFutureImpl([s EXCEPT !.notified[w.exec] = @ + 1],
                                              UserWatcher(w.exec + MaxWatchers), f), f)
          [] w.kind = "each" ->
                LET out == s.cells[w.exec].future
                    s1 == [gone EXCEPT !.cells[w.exec].count = @ - 1,
                                       !.cells[w.exec].order = Append(@, s.executions[f].step)]
                    s2 == AggregateFutureValue(s1, f, out)
                IN  IF s2.cells[w.exec].count = 0 THEN SetFinished(s2, out) ELSE s2
          [] w.kind = "count" ->
                LET s1 == [s EXCEPT !.cells[w.exec].count = @ + 1]
                IN  IF s1.cells[w.exec].count = s1.cells[w.exec].total
                    THEN DeleteAndFinish(s1, s1.executions[s1.cells[w.exec].future].executor.cell,
                                         s1.cells[w.exec].future)
                    ELSE s1
          [] OTHER -> s

\* ------------------------------------------------------------------ Executor
\* an Executor: its continuation, its ExecutionFlag and its guards
Executor(cont, flag, body, nested, v) ==
    [cont |-> cont, flag |-> flag, body |-> body, nested |-> nested, val |-> v,
     mGuards |-> {}, target |-> 0, cell |-> 0, list |-> <<>>, job |-> <<>>]

\* the continuation executeJobAndApply chains behind the nested Job
ApplyExecutor(e) ==
    [cont |-> "AsyncError", flag |-> Always, body |-> "apply", nested |-> "none", val |-> 0,
     mGuards |-> {}, target |-> e, cell |-> 0, list |-> <<>>, job |-> <<>>]

\* the Job a job continuation returns: KAsync::value, KAsync::error or start(async)
NestedJob(executor) ==
    << Executor("Async", GoodCase,
                CASE executor.nested = "value" -> "result"
                  [] executor.nested = "error" -> "error"
                  [] OTHER -> "defer",
                "none", executor.val + 10) >>

\* an Error argument taken from the end of the error list
ErrorArg_Last(fut) == IF HasError(fut) THEN fut.errors[Len(fut.errors)] ELSE NoError

\* an Error argument that is never the zero Error
ErrorArg_NeverZero(fut) == IF HasError(fut) THEN Head(fut.errors) ELSE Error(1, "error")

\* the Error argument run passes to an error-aware continuation
ErrorArg(fut) == IF HasError(fut) THEN Head(fut.errors) ELSE NoError

\* a gate that lets a GoodCase step run on an error
Gate_RunsOnError(guardIsBroken, hasPrev, prevHasError, flag) ==
    IF guardIsBroken THEN "cancel"
    ELSE IF hasPrev /\ ~prevHasError /\ flag = ErrorCase THEN "forwardValue"
    ELSE "run"

\* a gate that lets an ErrorCase step run without an error
Gate_NoValueForward(guardIsBroken, hasPrev, prevHasError, flag) ==
    IF guardIsBroken THEN "cancel"
    ELSE IF hasPrev /\ prevHasError /\ flag = GoodCase THEN "forwardError"
    ELSE "run"

\* a gate that looks at the predecessor's error before it looks at the guards
Gate_ChecksErrorFirst(guardIsBroken, hasPrev, prevHasError, flag) ==
    IF hasPrev /\ prevHasError /\ flag = GoodCase THEN "forwardError"
    ELSE IF guardIsBroken THEN "cancel"
    ELSE IF hasPrev /\ ~prevHasError /\ flag = ErrorCase THEN "forwardValue"
    ELSE "run"

\* the branch runExecution takes
Gate(guardIsBroken, hasPrev, prevHasError, flag) ==
    IF guardIsBroken THEN "cancel"
    ELSE IF hasPrev /\ prevHasError /\ flag = GoodCase THEN "forwardError"
    ELSE IF hasPrev /\ ~prevHasError /\ flag = ErrorCase THEN "forwardValue"
    ELSE "run"

\* an exec that never waits for the predecessor
PrevIsDone_Always(s, prev) == TRUE

\* the test of Executor::exec whether the step can be dispatched at once
PrevIsDone(s, prev) == prev = 0 \/ IsFinished(s.futures[prev])

\* what the callback of a deferred asynchronous continuation does with its Future
CompleteWith(s, e, outcome) ==
    LET x == s.executions[e].executor
        item == x.body \in {"deferIn", "deferFirst"}
        v == IF item THEN s.executions[e].inArg ELSE x.val
    IN  CASE outcome = "result" ->
                IF item THEN SetFinished(s, e)
                ELSE IF x.body = "deferLoop" THEN SetResult(s, e, BoolValue(s.cells[x.cell].count < x.val))
                ELSE IF x.body \in {"deferPlus", "plusSecond"} THEN SetResult(s, e, <<x.val + 1>>)
                ELSE SetResult(s, e, v)
          [] outcome = "error" -> SetError(s, e, Err(v))
          [] outcome = "zero" -> SetError(s, e, Error(0, "zero"))
          [] outcome = "multi" -> SetFinished(AddError(AddError(s, e, Err(v)), e, Err2(v)), e)
          [] OTHER -> SetFinished(s, e)

\* an exec() that reuses the ExecutionContext of the first run
JobExec_SharedContext(s, cfgs, parent) ==
    IF s.contexts = <<>>
    THEN ExecExecutor([s EXCEPT !.contexts = <<[guards |-> {}, top |-> parent = 0, parent |-> parent,
                                                chainGuards |-> {}]>>], cfgs, Len(cfgs), 1)
    ELSE ExecExecutor(s, cfgs, Len(cfgs), 1)

\* Job::exec() as called by the continuation of Execution parent, or by the user (0)
JobExec(s, cfgs, parent) ==
    LET c == Len(s.contexts) + 1
        all == UNION {cfgs[i].mGuards : i \in DOMAIN cfgs}
        s1 == [s EXCEPT !.contexts = Append(@, [guards |-> {}, top |-> parent = 0,
                                                parent |-> parent, chainGuards |-> all])]
    IN  ExecExecutor(s1, cfgs, Len(cfgs), c)


\* ------------------------------------------------------------------ exec(initial)
\* the value passed to exec(initial)
Initials == {21}

\* the Executor Job::exec(FirstIn) puts in front of the head
InjectedHead(in) == Executor("Async", GoodCase, "result", "none", in)

\* Job::exec(FirstIn): the walk to the first Executor and first->mPrev = injected
Inject(cfgs, in) == <<InjectedHead(in)>> \o cfgs

\* an exec(initial) that leaves the injected Executor linked
RemoveInjected_Keep(cfgs) == cfgs

\* Job::exec(FirstIn): first->mPrev.reset()
RemoveInjected(cfgs) == Tail(cfgs)

\* Job::exec(FirstIn) on the Job with the steps cfgs, called by the continuation of
\* Execution parent or by the user (0)
ExecFirstIn(s, cfgs, in, parent) ==
    LET s1 == [s EXCEPT !.injected = Inject(@, in)]
    IN  [JobExec(s1, s1.injected \o cfgs, parent) EXCEPT !.injected = RemoveInjected(@)]

\* ------------------------------------------------------------------ for-each
\* the continuation forEach and serialForEach chain behind the inner Job, error-aware
\* and so always run (as ErrorShapes); outer is the Future serialForEach finishes from
\* it (0: none)
RecordExecutor(k, outer) ==
    [Executor("SyncError", Always, "record", "none", 0) EXCEPT !.cell = k, !.target = outer]

\* the Job of waitForCompletion(list)
WaitExecutor(list) == [Executor("Async", GoodCase, "wait", "none", 0) EXCEPT !.list = list]

\* the last continuation of the Job forEach and serialForEach return
FinalExecutor(k) == [Executor("Async", GoodCase, "final", "none", 0) EXCEPT !.cell = k]

\* KAsync::null<void>()
NullExecutor == Executor("Async", GoodCase, "finish", "none", 0)

\* the continuation serialForEach chains for the element v
ElementExecutor(v, job, k) ==
    [Executor("Async", GoodCase, "element", "none", v) EXCEPT !.job = job, !.cell = k]

\* a recording lambda that keeps the last error
RecordError_KeepsLast(s, e, error) ==
    LET x == s.executions[e].executor
        s1 == IF ErrorIsSet(error) THEN [s EXCEPT !.cells[x.cell].error = error] ELSE s
    IN  IF x.target # 0 THEN SetFinished(s1, x.target) ELSE s1

\* [error](const Error &e) { if (e && !*error) *error = e; } and, in serialForEach,
\* future.setFinished()
RecordError(s, e, error) ==
    LET x == s.executions[e].executor
        s1 == IF ErrorIsSet(error) /\ ~ErrorIsSet(s.cells[x.cell].error)
              THEN [s EXCEPT !.cells[x.cell].error = error]
              ELSE s
    IN  IF x.target # 0 THEN SetFinished(s1, x.target) ELSE s1

\* a waitForCompletion that counts a pending Future as finished
BindWatchers_CountsPending(s, k, list, i) == [s EXCEPT !.cells[k].count = Len(list)]

\* context->setProperty("future<i>", watcher) for the watcher of counter k on the
\* Future f: the property owns the watcher, and the watcher it held before is destroyed
SetProperty(s, ctx, i, k, f) ==
    IF ctx = 0
    THEN s
    ELSE IF s.cells[ctx].buffer # "valid"
    THEN [s EXCEPT !.cells[ctx].total = @ + 1,
                   !.cells[ctx].buffer = IF s.reused THEN "torn" ELSE @,
                   !.cells[k].buffer = IF s.reused THEN "torn" ELSE @]
    ELSE [s EXCEPT !.cells[ctx].order[i] = k,
                   !.futures[f].watchers =
                       [n \in DOMAIN @ |->
                           IF s.cells[ctx].order[i] # 0 /\ @[n] = CountWatcher(s.cells[ctx].order[i])
                           THEN NullWatcher
                           ELSE @[n]]]

RECURSIVE BindWatchers(_, _, _, _)
\* the loop of the waitForCompletion continuation over the Futures from position i
BindWatchers(s, k, list, i) ==
    IF i > Len(list) \/ s.cells[k].buffer = "torn"
    THEN s
    ELSE BindWatchers(IF IsFinished(s.futures[list[i]])
                      THEN [s EXCEPT !.cells[k].count = @ + 1]
                      ELSE SetProperty(SetFutureImpl(s, CountWatcher(k), list[i]),
                                       s.executions[s.cells[k].future].executor.cell,
                                       i, k, list[i]),
                      k, list, i + 1)

\* a waitForCompletion without the test behind the loop
WaitForCompletion_NoFinalCheck(s, e) ==
    LET list == s.executions[e].executor.list
        k == Len(s.cells) + 1
    IN  BindWatchers([s EXCEPT !.cells = Append(@, NewCell(e, Len(list)))], k, list, 1)

\* the test behind the loop of waitForCompletion: if (*context == total) future.setFinished()
FinishIfAllDone(s, k, e) ==
    IF s.cells[k].count = s.cells[k].total /\ s.cells[k].buffer # "torn"
    THEN DeleteAndFinish(s, s.executions[e].executor.cell, e)
    ELSE s

\* the continuation of waitForCompletion
WaitForCompletion(s, e) ==
    LET list == s.executions[e].executor.list
        k == Len(s.cells) + 1
    IN  FinishIfAllDone(BindWatchers([s EXCEPT !.cells = Append(@, NewCell(e, Len(list)))],
                                     k, list, 1),
                        k, e)

\* [error](Future<void> &future) { if (*error) future.setError(*error); else future.setFinished(); }
Finalize(s, e) ==
    LET error == s.cells[s.executions[e].executor.cell].error
    IN  IF ErrorIsSet(error) THEN SetError(s, e, error) ELSE SetFinished(s, e)

\* an element step that does not wait for the inner Job
RunElement_FinishesAtOnce(s, e) ==
    LET x == s.executions[e].executor
        s0 == [s EXCEPT !.executions[e].openAtCall =
                            {f \in DOMAIN s.futures : ~IsFinished(s.futures[f])}]
    IN  SetFinished(ExecFirstIn(s0, Append(x.job, RecordExecutor(x.cell, e)), x.val, e), e)

\* the continuation serialForEach chains for one element: job.then(record).exec(value)
RunElement(s, e) ==
    LET x == s.executions[e].executor
        s0 == [s EXCEPT !.executions[e].openAtCall =
                            {f \in DOMAIN s.futures : ~IsFinished(s.futures[f])}]
    IN  ExecFirstIn(s0, Append(x.job, RecordExecutor(x.cell, e)), x.val, e)

RECURSIVE StartEach(_, _, _, _, _, _)
\* the rest of the loop of forEach once value i is started: s.ret is its Future, put
\* in front of the Futures of the later values
StartNext(s, e, job, k, values, i) ==
    [StartEach(s, e, job, k, values, i + 1) EXCEPT !.ret = <<s.ret>> \o @]

\* the loop of forEach over the values from position i; ret is the list of Futures
StartEach(s, e, job, k, values, i) ==
    IF i > Len(values)
    THEN [s EXCEPT !.ret = <<>>]
    ELSE StartNext(ExecFirstIn(s, Append(job, RecordExecutor(k, 0)), values[i], e),
                   e, job, k, values, i)

\* the Job forEach returns: waitForCompletion(list).then(...), list being s.ret
ForEachJob(s, k) == [heap |-> s, job |-> <<WaitExecutor(s.ret), FinalExecutor(k)>>]

\* the job continuation of forEach
ForEach(s, e, values) ==
    LET k == Len(s.cells) + 1
    IN  ForEachJob(StartEach([s EXCEPT !.cells = Append(@, NewCell(0, 0))], e,
                             s.executions[e].executor.job, k, values, 1),
                   k)

\* the job continuation of serialForEach
SerialForEach(s, e, values) ==
    LET k == Len(s.cells) + 1
        job == s.executions[e].executor.job
    IN  [heap |-> [s EXCEPT !.cells = Append(@, NewCell(0, 0))],
         job |-> <<NullExecutor>> \o [i \in DOMAIN values |-> ElementExecutor(values[i], job, k)]
                    \o <<FinalExecutor(k)>>]

\* ------------------------------------------------------------------ each
\* the EachTask called for the element v by the each step of Execution e
ElementTask(body, v, e) == [Executor("Async", GoodCase, body, "none", v) EXCEPT !.target = e]

\* mFunc(arg, *future): e -> [e + 1], at once or when an event arrives ("plusSecond":
\* at once for every element but the first)
CallEachTask(s, f) ==
    LET x == s.executions[f].executor
    IN  IF x.body = "plusOne" \/ (x.body = "plusSecond" /\ s.executions[f].step > 1)
        THEN SetResult(s, f, <<x.val + 1>>)
        ELSE [s EXCEPT !.pending = @ \cup {f}]

RECURSIVE EachLoop(_, _, _, _, _)
\* the loop of EachExecutor::run over the elements from position i: a new Future, the
\* call of mFunc, and a new FutureWatcher appended to mFutureWatchers and bound to it
EachLoop(s, e, k, list, i) ==
    IF i > Len(list)
    THEN s
    ELSE LET f == Len(s.executions) + 1
             x == ElementTask(s.executions[e].executor.body, list[i], e)
             s1 == [s EXCEPT !.executions =
                                 Append(@, [NewExecution(x, 0, s.executions[e].context, i)
                                               EXCEPT !.calls = 1, !.inArg = list[i]]),
                             !.futures = Append(@, [NewFuture EXCEPT !.value = <<>>])]
         IN  EachLoop(SetFutureImpl([CallEachTask(s1, f) EXCEPT !.cells[k].count = @ + 1],
                                    EachWatcher(k), f),
                      e, k, list, i + 1)

\* EachExecutor::run; the value of a new Future<QList> is the empty list
EachRun(s, e) ==
    LET list == s.futures[s.executions[e].prevExecution].value
        k == Len(s.cells) + 1
        s1 == SetValue([s EXCEPT !.cells = Append(@, NewCell(e, Len(list)))], e, <<>>)
    IN  IF list = <<>> THEN SetFinished(s1, e) ELSE EachLoop(s1, e, k, list, 1)

\* ------------------------------------------------------------------ dowhile
\* the lambda dowhile chains behind the body: whileCallback(!result); return true;
WhileCallbackExecutor(loop) ==
    [Executor("Sync", GoodCase, "whileCallback", "none", 1) EXCEPT !.target = loop]

\* asyncWhile: body(callback), that is start<bool>(body).then<bool, bool>(lambda).exec(),
\* called by the continuation of Execution parent for the loop of Execution loop
AsyncWhile(s, loop, parent) ==
    JobExec(s, Append(s.executions[loop].executor.job, WhileCallbackExecutor(loop)), parent)

\* a callback that completes the loop whatever the body returned
WhileCallback_StopsAtOnce(s, e, result) == SetFinished(s, s.executions[e].executor.target)

\* the callback asyncWhile hands to body, called with complete = !result:
\* completionHandler() or asyncWhile(body, completionHandler)
WhileCallback(s, e, result) ==
    LET loop == s.executions[e].executor.target
    IN  IF result = BoolValue(FALSE) THEN SetFinished(s, loop) ELSE AsyncWhile(s, loop, e)

\* the body of a loop: i++ on the counter it captures, then the result (i < val) or an error
LoopBody(s, e) ==
    LET x == s.executions[e].executor
        s1 == [s EXCEPT !.cells[x.cell].count = @ + 1]
        i == s1.cells[x.cell].count
    IN  CASE x.body = "syncLoop" -> SetResult(s1, e, BoolValue(i < x.val))
          [] x.body = "errorLoop" ->
                IF i < x.val THEN SetResult(s1, e, BoolValue(TRUE)) ELSE SetError(s1, e, Err(i))
          [] OTHER -> [s1 EXCEPT !.pending = @ \cup {e}]

\* a job continuation called with its input: the heap it leaves and the Job it returns
JobContinuation(s, e, in) ==
    LET x == s.executions[e].executor
    IN  CASE x.nested = "forEach" -> ForEach(s, e, in)
          [] x.nested = "serialForEach" -> SerialForEach(s, e, in)
          [] OTHER -> [heap |-> s, job |-> NestedJob(x)]

\* executeJobAndApply on the Job r.job the continuation returned: .then(lambda).exec()
ExecNested(r, e) == JobExec(r.heap, Append(r.job, ApplyExecutor(e)), e)

\* Executor::executeJobAndApply
ExecuteJobAndApply(s, e) ==
    LET p == s.executions[e].prevExecution
    IN  ExecNested(JobContinuation(s, e, IF p # 0 THEN s.futures[p].value ELSE NoValue), e)

\* a lambda that hands on the value whatever the nested job reports
ApplyResult_DropsError(s, e, error, v) ==
    SetFinished(SetResult(s, s.executions[e].executor.target, v), e)

\* the lambda of executeJobAndApply
ApplyResult(s, e, error, v) ==
    LET target == s.executions[e].executor.target
        s1 == IF ErrorIsSet(error) THEN SetError(s, target, error) ELSE SetResult(s, target, v)
    IN  SetFinished(s1, e)

\* the continuation of KAsync::wait: it connects a lambda that refers to the Future of
\* this run to the QTimer of the Job and starts the timer. The timer is kept with the
\* shared objects: count is the time left (0: inactive), order lists the Futures the
\* connected lambdas refer to, future is the run that started it last
StartTimer(s, e) ==
    LET x == s.executions[e].executor
    IN  [s EXCEPT !.cells[x.cell].order = Append(@, e),
                  !.cells[x.cell].count = x.val,
                  !.cells[x.cell].future = e]

\* an asynchronous continuation called with its Future
CallAsync(s, e, error, in) ==
    LET x == s.executions[e].executor
    IN  CASE x.body = "result" -> SetResult(s, e, x.val)
          [] x.body = "error" -> SetError(s, e, Err(x.val))
          [] x.body = "apply" -> ApplyResult(s, e, error, in)
          [] x.body = "finish" -> SetFinished(s, e)
          [] x.body = "errorEven" -> IF in % 2 = 0 THEN SetError(s, e, Err(in)) ELSE SetFinished(s, e)
          [] x.body = "deferFirst" /\ in # 1 -> SetFinished(s, e)
          [] x.body = "wait" -> WaitForCompletion(s, e)
          [] x.body = "final" -> Finalize(s, e)
          [] x.body = "element" -> RunElement(s, e)
          [] x.body = "while" -> AsyncWhile(s, e, e)
          [] x.body = "timer" -> StartTimer(s, e)
          [] x.body \in {"syncLoop", "errorLoop", "deferLoop"} -> LoopBody(s, e)
          [] OTHER -> [s EXCEPT !.pending = @ \cup {e}]

\* a synchronous continuation whose Future is left pending
CallSync_NoFinish(s, e) == SetValue(s, e, s.executions[e].executor.val)

\* callAndApply followed by future->setFinished()
CallSync(s, e) == SetFinished(SetValue(s, e, s.executions[e].executor.val), e)

\* an error handler that consumes the error
RunOnError_Consumes(s, e, error) == SetFinished(s, e)

\* SyncErrorExecutor::run
RunOnError(s, e, error) == SetError(s, e, error)

\* Executor::run
Run(s, e) ==
    LET x == s.executions[e].executor
        p == s.executions[e].prevExecution
        error == IF p # 0 THEN ErrorArg(s.futures[p]) ELSE NoError
        in == IF p # 0 THEN s.futures[p].value ELSE NoValue
        aware == x.cont \in {"AsyncError", "SyncError", "JobError", "OnError"}
        s0 == [s EXCEPT !.executions[e].calls = @ + 1,
                        !.executions[e].prevDoneAtCall = (p = 0 \/ IsFinished(s.futures[p])),
                        !.executions[e].errArg = IF aware THEN error ELSE NoError,
                        !.executions[e].inArg = in]
    IN  CASE x.cont \in {"Async", "AsyncError"} -> CallAsync(s0, e, error, in)
          [] x.cont \in {"Sync", "SyncError"} /\ x.body \notin {"record", "whileCallback"} ->
                CallSync(s0, e)
          [] x.cont = "Sync" /\ x.body = "whileCallback" -> CallSync(WhileCallback(s0, e, in), e)
          [] x.cont = "SyncError" /\ x.body = "record" -> CallSync(RecordError(s0, e, error), e)
          [] x.cont \in {"Job", "JobError"} -> ExecuteJobAndApply(s0, e)
          [] x.cont = "Each" -> EachRun(s0, e)
          [] OTHER -> RunOnError(s0, e, error)

\* Executor::runExecution
RunExecution(s, e, guardIsBroken) ==
    LET x == s.executions[e].executor
        p == s.executions[e].prevExecution
        c == s.contexts[s.executions[e].context]
        s0 == [s EXCEPT !.executions[e].dispatched = @ + 1,
                        !.executions[e].deadAtDispatch = \E g \in c.chainGuards : ~s.alive[g]]
        branch == Gate(guardIsBroken, p # 0, p # 0 /\ HasError(s.futures[p]), x.flag)
    IN  CASE branch = "cancel" -> SetFinished(s0, e)
          [] branch = "forwardError" ->
                SetError([s0 EXCEPT !.assertOk = @ /\ Len(s.futures[p].errors) = 1],
                         e, Head(s.futures[p].errors))
          [] branch = "forwardValue" -> SetFinished(SetValue(s0, e, s.futures[p].value), e)
          [] OTHER -> Run(s0, e)

\* an exec that runs the Execution at once and also when its predecessor finishes
ExecDispatch_AlsoWatches(s, e, prev, c) ==
    IF PrevIsDone(s, prev)
    THEN RunExecution(s, e, GuardIsBroken(s.contexts[c].guards, s.alive))
    ELSE RunExecution(SetFutureImpl(s, PrevWatcher(e), prev), e,
                      GuardIsBroken(s.contexts[c].guards, s.alive))

\* Executor::exec from the test of prevFuture on: the Execution e is run at once or
\* when its predecessor prev is finished
ExecDispatch(s, e, prev, c) ==
    IF PrevIsDone(s, prev)
    THEN RunExecution(s, e, GuardIsBroken(s.contexts[c].guards, s.alive))
    ELSE SetFutureImpl(s, PrevWatcher(e), prev)

\* Executor::exec behind the chain-up, which returned s.ret (0: no predecessor): the
\* new Execution, its Future and the watcher on it
ExecExecution(s, cfgs, n, c) ==
    LET prev == s.ret
        e == Len(s.executions) + 1
        s3 == [s EXCEPT !.executions = Append(@, NewExecution(cfgs[n], prev, c, n)),
                        !.futures = Append(@, NewFuture)]
    IN  [ExecDispatch(SetFutureImpl(s3, SelfWatcher(e), e), e, prev, c) EXCEPT !.ret = e]

\* an exec that adds the guards of an Executor to the context behind the chain-up
ExecExecutor_GuardsAfterChainUp(s, cfgs, n, c) ==
    ExecExecution(IF n > 1
                  THEN [ExecExecutor(s, cfgs, n - 1, c)
                           EXCEPT !.contexts[c].guards = @ \cup cfgs[n].mGuards]
                  ELSE [s EXCEPT !.contexts[c].guards = @ \cup cfgs[n].mGuards, !.ret = 0],
                  cfgs, n, c)

\* Executor::exec
ExecExecutor(s, cfgs, n, c) ==
    LET s1 == [s EXCEPT !.contexts[c].guards = @ \cup cfgs[n].mGuards]
    IN  ExecExecution(IF n > 1 THEN ExecExecutor(s1, cfgs, n - 1, c) ELSE [s1 EXCEPT !.ret = 0],
                      cfgs, n, c)

\* ------------------------------------------------------------------ the Job under test
\* the continuations without an Error argument that start and Job::then accept
PlainShapes ==
    {Executor("Async", GoodCase, b, "none", 0) : b \in {"result", "error", "defer"}}
    \cup {Executor("Sync", GoodCase, "none", "none", 0)}
    \cup {Executor("Job", GoodCase, "none", j, 0) : j \in {"value", "start"}}

\* the continuations that take an Error argument
ErrorShapes ==
    {Executor("AsyncError", Always, b, "none", 0) : b \in {"result", "defer"}}
    \cup {Executor("SyncError", Always, "none", "none", 0)}
    \cup {Executor("JobError", Always, "none", j, 0) : j \in {"value", "error"}}

\* Job::onError
OnErrorShape == Executor("OnError", ErrorCase, "none", "none", 0)

\* the chains of n Executors: start(...) followed by then(...) and onError(...);
\* the head has no predecessor to take an Error from
Chains(n) ==
    {k \in [1 .. n -> PlainShapes \cup ErrorShapes \cup {OnErrorShape}] : k[1] \in PlainShapes}

\* Job::guard: no guard, "a" guarded by the tail, or also "b" guarded by the head
GuardPlacements(n) ==
    {g \in [1 .. n -> SUBSET Sentinels] :
        /\ \A i \in 1 .. n : "a" \in g[i] => i = n
        /\ \A i \in 1 .. n : "b" \in g[i] => i = 1 /\ "a" \in g[n]}

Install(s) ==
    /\ futures' = s.futures
    /\ executions' = s.executions
    /\ contexts' = s.contexts
    /\ pending' = s.pending
    /\ notified' = s.notified
    /\ assertOk' = s.assertOk
    /\ cells' = s.cells
    /\ injected' = s.injected

\* an exec call returns: the heap s it leaves, and the Future s.ret handed to the caller
InstallRun(s) ==
    /\ Install(s)
    /\ results' = Append(results, s.ret)

Init ==
    /\ \E n \in 1 .. MaxLen : \E k \in Chains(n) : \E g \in GuardPlacements(n) :
          chain = [i \in 1 .. n |-> [k[i] EXCEPT !.val = i, !.mGuards = g[i]]]
    /\ alive = [g \in Sentinels |-> TRUE]
    /\ futures = <<>>
    /\ executions = <<>>
    /\ contexts = <<>>
    /\ pending = {}
    /\ results = <<>>
    /\ notified = <<>>
    /\ assertOk = TRUE
    /\ late = 0
    /\ early = {}
    /\ handles = TRUE
    /\ other = <<>>
    /\ split = 0
    /\ cells = <<>>
    /\ injected = <<>>
    /\ executors = NoExecutors
    /\ holders = <<>>

\* Job::exec(), called once on the Job
Exec ==
    /\ results = <<>>
    /\ InstallRun(JobExec(State, chain, 0))
    /\ UNCHANGED <<chain, alive, late, early, handles, other, executors, split, holders>>

\* the event an asynchronous continuation waited for arrives
Complete ==
    \E e \in pending : \E outcome \in {"result", "error", "zero", "multi"} :
        /\ LET s0 == [State EXCEPT !.pending = @ \ {e},
                                   !.executions[e].outcome = outcome,
                                   !.executions[e].deadAtDone = \E g \in Sentinels : ~alive[g],
                                   !.executions[e].orphanAtDone = ~handles,
                                   !.executions[e].runsAtDone = Len(results)]
           IN  Install(CompleteWith(s0, e, outcome))
        /\ UNCHANGED <<chain, alive, results, late, early, handles, other, executors, split, holders>>

\* a guarded QObject is destroyed
DestroySentinel ==
    \E g \in Sentinels :
        /\ alive[g]
        /\ \E i \in DOMAIN chain : g \in chain[i].mGuards
        /\ alive' = [alive EXCEPT ![g] = FALSE]
        /\ UNCHANGED <<chain, futures, executions, contexts, pending, results, notified, assertOk, late,
                     early, handles, other, executors, split, cells, injected, holders>>

Next == Exec \/ Complete \/ DestroySentinel

Spec == Init /\ [][Next]_vars

\* a continuation that was handed its output Future calls setResult or setError on it
\* once more, after the Future is finished
CompleteAgain ==
    \E e \in DOMAIN executions : \E outcome \in {"result", "error"} :
        /\ late < MaxLate
        /\ executions[e].executor.cont \in {"Async", "AsyncError"}
        /\ executions[e].calls > 0
        /\ IsFinished(futures[e])
        /\ late' = late + 1
        /\ Install(CompleteWith(State, e, outcome))
        /\ UNCHANGED <<chain, alive, results, early, handles, other, executors, split, holders>>

NextAgain == Next \/ CompleteAgain

SpecAgain == Init /\ [][NextAgain]_vars

\* the event loop delivers every event a continuation waits for. This is WF_vars(Complete)
\* written out: Complete is enabled exactly while an Execution is pending, and a step of
\* Complete is one that leaves results and alive as they are (Exec appends to results,
\* DestroySentinel changes alive)
SpecLive == Spec /\ ([]<>(pending = {}) \/ []<><<results' = results /\ alive' = alive>>_vars)

\* ------------------------------------------------------------------ one Future and its users
\* the values and errors a task hands to its Future
Values == {1, 2}
Errors == {Err(1), Err(2)}

\* one Future, not yet bound to any watcher
InitFuture ==
    /\ chain = <<>>
    /\ alive = [g \in Sentinels |-> TRUE]
    /\ futures = <<NewFuture>>
    /\ executions = <<>>
    /\ contexts = <<>>
    /\ pending = {}
    /\ results = <<>>
    /\ notified = [w \in 1 .. MaxWatchers |-> 0]
    /\ assertOk = TRUE
    /\ late = 0
    /\ early = {}
    /\ handles = TRUE
    /\ other = <<>>
    /\ split = 0
    /\ cells = <<>>
    /\ injected = <<>>
    /\ executors = NoExecutors
    /\ holders = <<>>

\* a call on the Future counts as late when the Future is already finished
Call(s) ==
    /\ IsFinished(futures[1]) => late < MaxLate
    /\ late' = IF IsFinished(futures[1]) THEN late + 1 ELSE late
    /\ Install(s)
    /\ UNCHANGED <<chain, alive, results, early, handles, other, executors, split, holders>>

\* a task calls setFinished()
DoSetFinished == Call(SetFinished(State, 1))

\* a task calls setValue(v)
DoSetValue == \E v \in Values : Call(SetValue(State, 1, v))

\* a task calls setResult(v)
DoSetResult == \E v \in Values : Call(SetResult(State, 1, v))

\* a task calls setError(error)
DoSetError == \E error \in Errors : Call(SetError(State, 1, error))

\* a task calls addError(error)
DoAddError ==
    \E error \in Errors :
        /\ Len(futures[1].errors) < MaxErrors
        /\ Call(AddError(State, 1, error))

\* a task calls clearErrors()
DoClearErrors == Call(ClearErrors(State, 1))

\* user code calls FutureWatcher::setFuture on a fresh watcher
DoSetFuture ==
    \E w \in 1 .. MaxWatchers :
        /\ \A k \in DOMAIN futures[1].watchers : futures[1].watchers[k] # UserWatcher(w)
        /\ Install(SetFutureImpl(State, UserWatcher(w), 1))
        /\ early' = IF IsFinished(futures[1]) THEN early ELSE early \cup {w}
        /\ UNCHANGED <<chain, alive, results, late, handles, other, executors, split, holders>>

NextFuture ==
    \/ DoSetFinished
    \/ DoSetValue
    \/ DoSetResult
    \/ DoSetError
    \/ DoAddError
    \/ DoClearErrors
    \/ DoSetFuture

SpecFuture == InitFuture /\ [][NextFuture]_vars

\* ------------------------------------------------------------------ watchers that bind watchers
\* one Future, not yet bound to any watcher
InitBind ==
    /\ chain = <<>>
    /\ alive = [g \in Sentinels |-> TRUE]
    /\ futures = <<NewFuture>>
    /\ executions = <<>>
    /\ contexts = <<>>
    /\ pending = {}
    /\ results = <<>>
    /\ notified = [w \in 1 .. 3 * MaxWatchers |-> 0]
    /\ assertOk = TRUE
    /\ late = 0
    /\ early = {}
    /\ handles = TRUE
    /\ other = <<>>
    /\ split = 0
    /\ cells = <<>>
    /\ injected = <<>>
    /\ executors = NoExecutors
    /\ holders = <<>>

\* user code calls FutureWatcher::setFuture on a fresh watcher
BindSetFuture == futures[1].buffer # "torn" /\ DoSetFuture

\* user code binds a fresh watcher whose slot binds one more watcher to the Future; the
\* Future is pending, so the slot runs below the loop of setFinished
BindSetBinder ==
    \E b \in MaxWatchers + 1 .. 2 * MaxWatchers :
        /\ futures[1].buffer # "torn"
        /\ ~IsFinished(futures[1])
        /\ \A k \in DOMAIN futures[1].watchers : futures[1].watchers[k] # BinderWatcher(b)
        /\ Install(SetFutureImpl(State, BinderWatcher(b), 1))
        /\ early' = early \cup {b}
        /\ UNCHANGED <<chain, alive, results, late, handles, other, executors, split, holders>>

\* a task calls setFinished(); the allocator may or may not hand a block the list
\* releases out again
BindSetFinished ==
    \E o \in BOOLEAN :
        futures[1].buffer # "torn" /\ Call(SetFinished([State EXCEPT !.reused = o], 1))

NextBind ==
    \/ BindSetFuture
    \/ BindSetBinder
    \/ BindSetFinished

SpecBind == InitBind /\ [][NextBind]_vars

\* ------------------------------------------------------------------ Job handles
RECURSIVE Prepend(_, _)
\* ExecutorBase::prepend: e becomes the predecessor of the head
Prepend(cfgs, e) ==
    IF Len(cfgs) = 1
    THEN e \o cfgs
    ELSE Append(Prepend(SubSeq(cfgs, 1, Len(cfgs) - 1), e), cfgs[Len(cfgs)])

\* a then(b) that puts the steps of a behind those of b
ThenJob_Appends(a, b) == b \o a

\* Job::then(const Job &), called on the Job with chain a for the Job with chain b
ThenJob(a, b) == Prepend(b, a)

\* no lambda holds the Execution
HeldByWatcher_None(w, e) == FALSE

\* only the lambda waiting for the predecessor holds the Execution
HeldByWatcher_OnlyPrev(w, e) == w.kind = "prev" /\ w.exec = e

\* the lambda connected to watcher w captures the ExecutionPtr of e
HeldByWatcher(w, e) == w.kind \in {"self", "prev"} /\ w.exec = e

RECURSIVE ExecutionAlive(_)
\* the Execution is owned by a connected lambda or by its successor's prevExecution
ExecutionAlive(e) ==
    \/ \E f \in DOMAIN futures : \E k \in DOMAIN futures[f].watchers :
          HeldByWatcher(futures[f].watchers[k], e)
    \/ \E j \in DOMAIN executions :
          j > e /\ executions[j].prevExecution = e /\ ExecutionAlive(j)

\* the Executor is owned by a Job handle, by an Execution, or by the mPrev of an
\* owned Executor
ExecutorAlive(x) ==
    \/ handles /\ ((\E i \in DOMAIN chain : chain[i] = x) \/ (\E i \in DOMAIN other : other[i] = x))
    \/ \E e \in DOMAIN executions : executions[e].executor = x /\ ExecutionAlive(e)
    \/ \E i \in DOMAIN chain : \E k \in DOMAIN chain :
          /\ chain[i] = x
          /\ i <= k
          /\ \E e \in DOMAIN executions : executions[e].executor = chain[k] /\ ExecutionAlive(e)

\* the continuations of the Jobs the user composes
JobHeads ==
    {Executor("Async", GoodCase, "defer", "none", 0), Executor("Sync", GoodCase, "none", "none", 0)}

\* start(...) alone or followed by one then(...)
Jobs ==
    {<<h>> : h \in JobHeads}
        \cup {<<Executor("Async", GoodCase, "defer", "none", 0),
                Executor("SyncError", Always, "none", "none", 0)>>,
              <<Executor("Sync", GoodCase, "none", "none", 0),
                Executor("Async", GoodCase, "defer", "none", 0)>>}

\* a Job a and a Job b; a may guard an object
InitJobs ==
    /\ \E a \in Jobs : \E b \in {<<h>> : h \in JobHeads} : \E g \in SUBSET {"a"} :
          /\ chain = [i \in DOMAIN a |->
                        [a[i] EXCEPT !.val = i, !.mGuards = IF i = Len(a) THEN g ELSE {}]]
          /\ other = [i \in DOMAIN b |-> [b[i] EXCEPT !.val = 5 + i]]
    /\ alive = [g \in Sentinels |-> TRUE]
    /\ futures = <<>>
    /\ executions = <<>>
    /\ contexts = <<>>
    /\ pending = {}
    /\ results = <<>>
    /\ notified = <<>>
    /\ assertOk = TRUE
    /\ late = 0
    /\ early = {}
    /\ handles = TRUE
    /\ split = 0
    /\ cells = <<>>
    /\ injected = <<>>
    /\ executors = NoExecutors
    /\ holders = <<>>

\* a.then(b)
DoThenJob ==
    /\ handles
    /\ split = 0
    /\ chain' = ThenJob(chain, other)
    /\ split' = Len(chain)
    /\ UNCHANGED <<alive, futures, executions, contexts, pending, results, notified, assertOk, late,
                   early, handles, other, executors, cells, injected, holders>>

\* Job::exec()
ExecJob ==
    /\ handles
    /\ Len(results) < MaxRuns
    /\ InstallRun(JobExec(State, injected \o chain, 0))
    /\ UNCHANGED <<chain, alive, late, early, handles, other, executors, split, holders>>

\* Job::exec(FirstIn)
ExecInitial ==
    \E in \in Initials :
        /\ handles
        /\ Len(results) < MaxRuns
        /\ InstallRun(ExecFirstIn(State, chain, in, 0))
        /\ UNCHANGED <<chain, alive, late, early, handles, other, executors, split, holders>>

\* the user drops every Job and every Future
DropHandles ==
    /\ handles
    /\ handles' = FALSE
    /\ UNCHANGED <<chain, alive, futures, executions, contexts, pending, results, notified, assertOk,
                   late, early, other, executors, split, cells, injected, holders>>

NextJobs == DoThenJob \/ ExecJob \/ ExecInitial \/ DropHandles \/ Complete \/ DestroySentinel

SpecJobs == InitJobs /\ [][NextJobs]_vars

\* ------------------------------------------------------------------ forEach and serialForEach
\* the inner Jobs: one that finishes when its event arrives, one that finishes at once,
\* one that fails at once on even values and one that waits for an event on the value 1
\* and finishes at once on every other value
InnerJobs ==
    {<<Executor("Async", GoodCase, b, "none", 0)>> :
        b \in {"deferIn", "finish", "errorEven", "deferFirst"}}

\* KAsync::forEach and KAsync::serialForEach
EachExecutor(kind, job) == [Executor("Job", GoodCase, "none", kind, 0) EXCEPT !.job = job]

\* the lists 1 .. n
Lists == {[i \in 1 .. n |-> i] : n \in 0 .. MaxList}

\* KAsync::value(list).then(forEach(inner)) or .then(serialForEach(inner))
InitEach ==
    /\ \E kind \in {"forEach", "serialForEach"} : \E list \in Lists : \E job \in InnerJobs :
          chain = <<Executor("Async", GoodCase, "result", "none", list), EachExecutor(kind, job)>>
    /\ alive = [g \in Sentinels |-> TRUE]
    /\ futures = <<>>
    /\ executions = <<>>
    /\ contexts = <<>>
    /\ pending = {}
    /\ results = <<>>
    /\ notified = <<>>
    /\ assertOk = TRUE
    /\ late = 0
    /\ early = {}
    /\ handles = TRUE
    /\ other = <<>>
    /\ split = 0
    /\ cells = <<>>
    /\ injected = <<>>
    /\ executors = NoExecutors
    /\ holders = <<>>

NextEach == Exec \/ Complete

SpecEach == InitEach /\ [][NextEach]_vars

\* ------------------------------------------------------------------ Executors by identity
\* the Executor objects: 1 and 2 are start(...).then(...) of the Job a, 3 is the Job b,
\* 4 the Job c, 5 and 6 are made by later then(continuation) and onError(...) calls
Nodes == 1 .. 6

\* the Job handles; d is assigned by d = h.then(continuation) and d = h.onError(...)
Handles == {"a", "b", "c", "d"}

\* the continuation and flag of the Executor object n; val names the object
NodeExecutor(n) ==
    IF n = 6 THEN [OnErrorShape EXCEPT !.val = n] ELSE Executor("Sync", GoodCase, "none", "none", n)

RECURSIVE EndsIn(_, _, _)
\* at most k mPrev links lead from the Executor n to a head
EndsIn(prev, n, k) ==
    IF n = 0 THEN TRUE ELSE IF k = 0 THEN FALSE ELSE EndsIn(prev, prev[n], k - 1)

\* the walk over mPrev from the Executor n comes to an end
Acyclic(prev, n) == EndsIn(prev, n, Cardinality(Nodes))

RECURSIVE ChainIn(_, _, _)
\* the Executors Executor::exec reaches from n over mPrev, head first (at most k of them)
ChainIn(prev, n, k) ==
    IF n = 0 \/ k = 0 THEN <<>> ELSE Append(ChainIn(prev, prev[n], k - 1), n)

\* the chain of the Job h, as Executor objects and as the steps exec() runs
NodesOf(h) == ChainIn(executors.mPrev, executors.mExecutor[h], Cardinality(Nodes))
StepsOf(h) == [i \in DOMAIN NodesOf(h) |-> NodeExecutor(NodesOf(h)[i])]

RECURSIVE PrependLink(_, _, _)
\* ExecutorBase::prepend on the Executor n: e becomes the mPrev of the head
PrependLink(prev, n, e) ==
    IF prev[n] # 0 THEN PrependLink(prev, prev[n], e) ELSE [prev EXCEPT ![n] = e]

\* the Jobs a = start(...).then(...), b = start(...), c = start(...)
InitGraph ==
    /\ executors = [mPrev |-> [n \in Nodes |-> IF n = 2 THEN 1 ELSE 0],
                    mExecutor |-> [h \in Handles |->
                                      CASE h = "a" -> 2 [] h = "b" -> 3 [] h = "c" -> 4 [] OTHER -> 0],
                    calls |-> 0, runs |-> <<>>]
    /\ holders = <<>>
    /\ chain = <<>>
    /\ alive = [g \in Sentinels |-> TRUE]
    /\ futures = <<>>
    /\ executions = <<>>
    /\ contexts = <<>>
    /\ pending = {}
    /\ results = <<>>
    /\ notified = <<>>
    /\ assertOk = TRUE
    /\ late = 0
    /\ early = {}
    /\ handles = TRUE
    /\ other = <<>>
    /\ split = 0
    /\ cells = <<>>
    /\ injected = <<>>

\* p.then(q) for two Jobs: q.mExecutor->prepend(p.mExecutor); the Job returned shares
\* the Executor of q.  prepend does not return when the mPrev links of q form a cycle.
ThenJobCalled(p, q) ==
    /\ executors.calls < MaxThen
    /\ executors.mExecutor[p] # 0
    /\ executors.mExecutor[q] # 0
    /\ Acyclic(executors.mPrev, executors.mExecutor[q])
    /\ executors' = [executors EXCEPT
                        !.mPrev = PrependLink(@, executors.mExecutor[q], executors.mExecutor[p]),
                        !.calls = @ + 1]
    /\ UNCHANGED <<chain, alive, futures, executions, contexts, pending, results, notified, assertOk,
                   late, early, handles, other, split, cells, injected, holders>>

ThenJobOnGraph == \E p \in Handles : \E q \in Handles : ThenJobCalled(p, q)

\* d = h.then(continuation) or d = h.onError(...): a new Executor whose mPrev is the
\* Executor of h
ThenContinuation ==
    \E h \in Handles : \E n \in {5, 6} :
        /\ executors.calls < MaxThen
        /\ executors.mExecutor[h] # 0
        /\ executors.mExecutor["d"] # n
        /\ \A m \in Nodes : executors.mPrev[m] # n
        /\ executors' = [executors EXCEPT !.mPrev[n] = executors.mExecutor[h],
                                          !.mExecutor["d"] = n,
                                          !.calls = @ + 1]
        /\ UNCHANGED <<chain, alive, futures, executions, contexts, pending, results, notified,
                       assertOk, late, early, handles, other, split, cells, injected, holders>>

\* h.exec() or h.exec(initial); Executor::exec does not return when the mPrev links
\* of h form a cycle
ExecOnGraph ==
    \E h \in Handles : \E in \in Initials \cup {NoValue} :
        /\ Len(results) < MaxRuns
        /\ executors.mExecutor[h] # 0
        /\ Acyclic(executors.mPrev, executors.mExecutor[h])
        /\ InstallRun(IF in = NoValue
                      THEN JobExec(State, StepsOf(h), 0)
                      ELSE ExecFirstIn(State, StepsOf(h), in, 0))
        /\ executors' = [executors EXCEPT !.runs = Append(@, h)]
        /\ UNCHANGED <<chain, alive, late, early, handles, other, split, holders>>

NextGraph == ThenJobOnGraph \/ ThenContinuation \/ ExecOnGraph

SpecGraph == InitGraph /\ [][NextGraph]_vars

\* ------------------------------------------------------------------ each with a list as output
\* the each step of the Job: each(task) with the given kind of task
EachTaskExecutor(body) == Executor("Each", GoodCase, body, "none", 0)

\* value(list).each(task), alone or followed by one then(...)
InitCollect ==
    /\ \E list \in Lists : \E body \in {"plusOne", "deferPlus", "plusSecond"} :
       \E tail \in {<<>>, <<Executor("Sync", GoodCase, "none", "none", 7)>>} :
          chain = <<Executor("Async", GoodCase, "result", "none", list), EachTaskExecutor(body)>>
                      \o tail
    /\ alive = [g \in Sentinels |-> TRUE]
    /\ futures = <<>>
    /\ executions = <<>>
    /\ contexts = <<>>
    /\ pending = {}
    /\ results = <<>>
    /\ notified = <<>>
    /\ assertOk = TRUE
    /\ late = 0
    /\ early = {}
    /\ handles = TRUE
    /\ other = <<>>
    /\ split = 0
    /\ cells = <<>>
    /\ injected = <<>>
    /\ executors = NoExecutors
    /\ holders = <<>>

NextCollect == Exec \/ Complete

SpecCollect == InitCollect /\ [][NextCollect]_vars

\* ------------------------------------------------------------------ dowhile loops
\* KAsync::dowhile(body): the body returns true while the counter is below n
WhileExecutor(body, n) ==
    [Executor("Async", GoodCase, "while", "none", 0) EXCEPT
        !.job = <<[Executor("Async", GoodCase, body, "none", n) EXCEPT !.cell = 1]>>]

\* dowhile(body), alone or followed by one then(...); int i = 0 is the counter of the body
InitWhile ==
    /\ \E body \in {"syncLoop", "errorLoop", "deferLoop"} : \E n \in 1 .. MaxRounds :
       \E tail \in {<<>>, <<Executor("Sync", GoodCase, "none", "none", 7)>>,
                     <<Executor("SyncError", Always, "none", "none", 7)>>} :
          chain = <<WhileExecutor(body, n)>> \o tail
    /\ alive = [g \in Sentinels |-> TRUE]
    /\ futures = <<>>
    /\ executions = <<>>
    /\ contexts = <<>>
    /\ pending = {}
    /\ results = <<>>
    /\ notified = <<>>
    /\ assertOk = TRUE
    /\ late = 0
    /\ early = {}
    /\ handles = TRUE
    /\ other = <<>>
    /\ split = 0
    /\ cells = <<NewCell(0, 0)>>
    /\ injected = <<>>
    /\ executors = NoExecutors
    /\ holders = <<>>

NextWhile == ExecJob \/ Complete

SpecWhile == InitWhile /\ [][NextWhile]_vars

\* ------------------------------------------------------------------ KAsync::wait
\* a Job made by wait(delay): one QTimer, shared by every run of the Job
InitWait ==
    /\ \E delay \in 1 .. MaxDelay :
          chain = <<[Executor("Async", GoodCase, "timer", "none", delay) EXCEPT !.cell = 1]>>
    /\ alive = [g \in Sentinels |-> TRUE]
    /\ futures = <<>>
    /\ executions = <<>>
    /\ contexts = <<>>
    /\ pending = {}
    /\ results = <<>>
    /\ notified = [r \in 1 .. MaxWaits |-> 0]
    /\ assertOk = TRUE
    /\ late = 0
    /\ early = {}
    /\ handles = TRUE
    /\ other = <<>>
    /\ split = 0
    /\ cells = <<NewCell(0, 0)>>
    /\ injected = <<>>
    /\ executors = NoExecutors
    /\ holders = <<>>

\* Job::exec() on the Job
WaitExec ==
    /\ Len(results) < MaxWaits
    /\ \A f \in DOMAIN futures : futures[f].buffer # "torn"
    /\ InstallRun(JobExec(State, chain, 0))
    /\ UNCHANGED <<chain, alive, late, early, handles, other, executors, split, holders>>

RECURSIVE Expire(_, _, _)
\* QTimer::timeout: the connected lambdas are called in the order of their connection,
\* each with the Future it refers to; notified counts the calls. The Futures in ended
\* belong to Executions that are destroyed: the lambda reads released memory, which
\* either still holds the finished Future or was handed out again
Expire(s, i, ended) ==
    IF i > Len(s.cells[1].order)
    THEN s
    ELSE LET f == s.cells[1].order[i]
             s1 == [s EXCEPT !.notified[f] = @ + 1]
         IN  IF f \in ended
             THEN IF s.reused
                  THEN [s1 EXCEPT !.futures[f].buffer = "torn"]
                  ELSE Expire(s1, i + 1, ended)
             ELSE Expire(SetFinished(s1, f), i + 1, ended)

\* time passes on the event loop: the active timer runs down and fires at zero
Elapse ==
    \E o \in BOOLEAN :
        /\ cells[1].count > 0
        /\ \A f \in DOMAIN futures : futures[f].buffer # "torn"
        /\ IF cells[1].count > 1
           THEN Install([State EXCEPT !.cells[1].count = @ - 1])
           ELSE Install(Expire([State EXCEPT !.reused = o, !.cells[1].count = 0], 1,
                               {e \in DOMAIN executions : ~ExecutionAlive(e)}))
        /\ UNCHANGED <<chain, alive, results, late, early, handles, other, executors, split, holders>>

NextWait == WaitExec \/ Elapse

SpecWait == InitWait /\ [][NextWait]_vars

\* ------------------------------------------------------------------ waitForCompletion as a Job
RECURSIVE Inputs(_)
\* n asynchronous one-step Jobs were started; their Futures are the inputs
Inputs(n) ==
    IF n = 0
    THEN [futures |-> <<>>, executions |-> <<>>, contexts |-> <<>>, pending |-> {},
          notified |-> <<>>, assertOk |-> TRUE, alive |-> [g \in Sentinels |-> TRUE],
          cells |-> <<>>, injected |-> <<>>, ret |-> 0, reused |-> FALSE]
    ELSE JobExec(Inputs(n - 1), <<Executor("Async", GoodCase, "defer", "none", n)>>, 0)

\* waitForCompletion(list) was called on the Futures of n started Jobs: it created the
\* QObject context and returned the Job
InitJoin ==
    \E n \in 0 .. MaxInputs :
        /\ chain = <<[WaitExecutor([i \in 1 .. n |-> i]) EXCEPT !.cell = 1]>>
        /\ alive = [g \in Sentinels |-> TRUE]
        /\ futures = Inputs(n).futures
        /\ executions = Inputs(n).executions
        /\ contexts = Inputs(n).contexts
        /\ pending = Inputs(n).pending
        /\ results = <<>>
        /\ notified = <<>>
        /\ assertOk = TRUE
        /\ late = 0
        /\ early = {}
        /\ handles = TRUE
        /\ other = <<>>
        /\ split = 0
        /\ cells = <<[NewCell(0, 0) EXCEPT !.order = [i \in 1 .. n |-> 0]]>>
        /\ injected = <<>>
        /\ executors = NoExecutors
        /\ holders = <<>>

\* exec() on the Job of waitForCompletion; a block the program released may or may not
\* have been handed out again
JoinExec ==
    \E o \in BOOLEAN :
        /\ Len(results) < MaxRuns
        /\ cells[1].buffer # "torn"
        /\ InstallRun(JobExec([State EXCEPT !.reused = o], chain, 0))
        /\ UNCHANGED <<chain, alive, late, early, handles, other, executors, split, holders>>

\* an input Future is finished by its task
JoinComplete ==
    \E e \in pending : \E outcome \in {"result", "error"} : \E o \in BOOLEAN :
        /\ cells[1].buffer # "torn"
        /\ Install(CompleteWith([State EXCEPT !.pending = @ \ {e}, !.reused = o], e, outcome))
        /\ UNCHANGED <<chain, alive, results, late, early, handles, other, executors, split, holders>>

NextJoin == JoinExec \/ JoinComplete

SpecJoin == InitJoin /\ [][NextJoin]_vars

\* ------------------------------------------------------------------ ContinuationHolder
\* ContinuationHolder::Tuple: the six continuation types, in the order of the tuple
Tuple == <<"Async", "AsyncError", "Sync", "SyncError", "Job", "JobError">>

\* a tuple_index that counts the positions from one
RECURSIVE TupleIndex_FromOne(_, _)
TupleIndex_FromOne(T, types) ==
    IF Head(types) = T THEN 1 ELSE TupleIndex_FromOne(T, Tail(types)) + 1

RECURSIVE TupleIndex(_, _)
\* tuple_index<T, std::tuple<U, Types ...>>::value
TupleIndex(T, types) == IF Head(types) = T THEN 0 ELSE TupleIndex(T, Tail(types)) + 1

\* ContinuationHolder::Invalid, numeric_limits<size_t>::max() - 1, as a signed number
Invalid == -2

RECURSIVE StorageType(_, _)
\* storage_helper<Tuple, I>: the type move and destroy work with for an index; I runs
\* down from the last position and position 0 is taken without a test
StorageType(index, I) ==
    IF I = 0 THEN Tuple[1] ELSE IF I = index THEN Tuple[I + 1] ELSE StorageType(index, I - 1)

\* ContinuationHolder::is<T>
Is(h, T) == h.mIndex = TupleIndex(T, Tuple)

\* ContinuationHolder::get<T>: the object in mStorage, read as a T
Get(h, T) == IF ~Is(h, T) THEN "bad_cast" ELSE h.mStorage

\* std::swap(mIndex, other.mIndex); storage_helper<Tuple>::move(mIndex, &mStorage,
\* &other.mStorage), the body of the move constructor and of the move assignment, for
\* this and the holder from it is called with: a T is constructed in the storage of
\* this from the storage of from read as a T. What was in the storage of this is
\* written over (lost counts the objects written over without being destroyed).
\* Reading an object of another type, or no object, as a T is undefined: the program
\* goes on or ends (o)
StorageMove(this, from, o) ==
    LET T == StorageType(from.mIndex, Len(Tuple) - 1)
        punned == from.mStorage # T
    IN  <<[this EXCEPT !.mIndex = from.mIndex,
                       !.mStorage = T,
                       !.fresh = FALSE,
                       !.lost = IF this.mStorage # "none" THEN @ + 1 ELSE @,
                       !.wrong = @ \/ punned,
                       !.state = IF punned /\ o THEN "torn" ELSE @],
          [from EXCEPT !.mIndex = this.mIndex, !.fresh = FALSE]>>

\* no ContinuationHolder yet
InitHolder ==
    /\ holders = <<>>
    /\ chain = <<>>
    /\ alive = [g \in Sentinels |-> TRUE]
    /\ futures = <<>>
    /\ executions = <<>>
    /\ contexts = <<>>
    /\ pending = {}
    /\ results = <<>>
    /\ notified = <<>>
    /\ assertOk = TRUE
    /\ late = 0
    /\ early = {}
    /\ handles = TRUE
    /\ other = <<>>
    /\ split = 0
    /\ cells = <<>>
    /\ injected = <<>>
    /\ executors = NoExecutors

\* ContinuationHolder(type<Out, In ...> &&cont), for each of the six types
Construct ==
    \E k \in DOMAIN Tuple :
        /\ Len(holders) < MaxHolders
        /\ \A h \in DOMAIN holders : holders[h].state # "torn"
        /\ holders' = Append(holders, [mIndex |-> TupleIndex(Tuple[k], Tuple), mStorage |-> Tuple[k],
                                       built |-> Tuple[k], fresh |-> TRUE, state |-> "live",
                                       lost |-> 0, wrong |-> FALSE])
        /\ UNCHANGED <<chain, alive, futures, executions, contexts, pending, results, notified,
                       assertOk, late, early, handles, other, split, cells, injected, executors>>

\* ContinuationHolder(ContinuationHolder &&other): mIndex starts as Invalid, mStorage empty
MoveConstruct ==
    \E j \in DOMAIN holders : \E o \in BOOLEAN :
        /\ Len(holders) < MaxHolders
        /\ \A h \in DOMAIN holders : holders[h].state # "torn"
        /\ holders[j].state = "live"
        /\ LET r == StorageMove([mIndex |-> Invalid, mStorage |-> "none", built |-> "none",
                                 fresh |-> FALSE, state |-> "live", lost |-> 0, wrong |-> FALSE],
                                holders[j], o)
           IN  holders' = Append([holders EXCEPT ![j] = r[2]], r[1])
        /\ UNCHANGED <<chain, alive, futures, executions, contexts, pending, results, notified,
                       assertOk, late, early, handles, other, split, cells, injected, executors>>

\* ContinuationHolder &operator=(ContinuationHolder &&other)
MoveAssign ==
    \E i, j \in DOMAIN holders : \E o \in BOOLEAN :
        /\ i # j
        /\ holders[i].lost < MaxLost
        /\ \A h \in DOMAIN holders : holders[h].state # "torn"
        /\ holders[i].state = "live" /\ holders[j].state = "live"
        /\ LET r == StorageMove(holders[i], holders[j], o)
           IN  holders' = [holders EXCEPT ![i] = r[1], ![j] = r[2]]
        /\ UNCHANGED <<chain, alive, futures, executions, contexts, pending, results, notified,
                       assertOk, late, early, handles, other, split, cells, injected, executors>>

\* ~ContinuationHolder: storage_helper<Tuple>::destroy(mIndex, &mStorage) unless mIndex
\* is Invalid. The destructor of the type the index names runs on what is in the
\* storage; on an object of another type that is undefined, and the program goes on
\* or ends (o)
Destroy ==
    \E i \in DOMAIN holders : \E o \in BOOLEAN :
        /\ \A h \in DOMAIN holders : holders[h].state # "torn"
        /\ holders[i].state = "live"
        /\ LET h == holders[i]
               T == StorageType(h.mIndex, Len(Tuple) - 1)
           IN  holders' =
                   [holders EXCEPT ![i] =
                       IF h.mIndex = Invalid
                       THEN [h EXCEPT !.state = "destroyed"]
                       ELSE [h EXCEPT !.mIndex = Invalid,
                                      !.mStorage = "none",
                                      !.wrong = @ \/ h.mStorage # T,
                                      !.state = IF h.mStorage # T /\ o THEN "torn" ELSE "destroyed"]]
        /\ UNCHANGED <<chain, alive, futures, executions, contexts, pending, results, notified,
                       assertOk, late, early, handles, other, split, cells, injected, executors>>

NextHolder == Construct \/ MoveConstruct \/ MoveAssign \/ Destroy

SpecHolder == InitHolder /\ [][NextHolder]_vars

\* ------------------------------------------------------------------ properties of the chain
\* the Executions of the run the user started
TopExecs == {e \in DOMAIN executions : contexts[executions[e].context].top}

\* Execution j belongs to a later step of the run of Execution e
After(e, j) ==
    /\ executions[j].context = executions[e].context
    /\ executions[j].step > executions[e].step

\* every step strictly between e and j finished without an error
CleanBetween(e, j) ==
    \A i \in DOMAIN executions :
        After(e, i) /\ After(i, j) => IsFinished(futures[i]) /\ ~HasError(futures[i])

\* the step's continuation takes an Error argument
ErrorAware(e) == executions[e].executor.cont \in {"AsyncError", "SyncError", "JobError"}

\* the continuation of step e ran and the step finished with an error
Failed(e) == executions[e].calls > 0 /\ IsFinished(futures[e]) /\ HasError(futures[e])

\* C1: the continuation of a step that has a predecessor is invoked only when the
\* predecessor's Future is finished, both when the predecessor finished inside exec()
\* and when it finished later and the step was started by the watcher.
C1_InvokedAfterPredecessor ==
    \A e \in DOMAIN executions :
        executions[e].calls > 0 /\ executions[e].prevExecution # 0 =>
            /\ executions[e].prevDoneAtCall
            /\ IsFinished(futures[executions[e].prevExecution])

C1_Witness ==
    \E e \in TopExecs : \E j \in TopExecs :
        /\ executions[e].calls > 0
        /\ executions[e].prevExecution # 0
        /\ executions[executions[e].prevExecution].outcome = "result"
        /\ executions[j].calls > 0
        /\ executions[j].prevExecution = e
        /\ executions[e].outcome = "none"

AllGoodOnly == \A i \in DOMAIN chain : chain[i].flag = GoodCase

\* C2 as stated: in a chain of GoodOnly steps, once step K has finished with an error,
\* no later step is invoked and every later step's Future is finished carrying exactly
\* the first error of step K.
C2_Original ==
    AllGoodOnly =>
        \A k \in TopExecs : \A j \in TopExecs :
            Failed(k) /\ After(k, j) =>
                /\ executions[j].calls = 0
                /\ IsFinished(futures[j])
                /\ futures[j].errors = <<Head(futures[k].errors)>>

\* C2: in a chain of GoodOnly steps, once step K has finished with an error, no later
\* step is invoked, and every later step that was dispatched while no guarded object
\* of the chain was destroyed is finished carrying exactly the first error of step K.
C2_ErrorSkipsGoodOnly ==
    AllGoodOnly =>
        \A k \in TopExecs : \A j \in TopExecs :
            Failed(k) /\ After(k, j) =>
                /\ executions[j].calls = 0
                /\ IsFinished(futures[j])
                /\ ~executions[j].deadAtDispatch =>
                        futures[j].errors = <<Head(futures[k].errors)>>

C2_Witness ==
    /\ AllGoodOnly
    /\ Len(chain) = 3
    /\ \E k \in TopExecs :
          /\ executions[k].step = 1
          /\ executions[k].outcome = "multi"
          /\ futures[k].errors = <<Err(1), Err2(1)>>
    /\ results # <<>>
    /\ futures[results[1]].errors = <<Err(1)>>
    /\ executions[results[1]].calls = 0
    /\ ~executions[results[1]].deadAtDispatch

\* an Always step that ran behind a failed step and finished without an error
Recovered(a) ==
    /\ executions[a].executor.flag = Always
    /\ executions[a].prevExecution # 0
    /\ HasError(futures[executions[a].prevExecution])
    /\ executions[a].calls > 0
    /\ IsFinished(futures[a])
    /\ ~HasError(futures[a])

\* what C3 says about the steps behind a recovered step a, for the dispatched steps j
\* selected by Dispatched
RecoveryHolds(a, j) ==
    /\ executions[j].executor.flag = GoodCase => executions[j].calls = 1
    /\ ErrorAware(j) => executions[j].calls = 1 /\ executions[j].errArg = NoError

\* the tail of the run is free of errors when no step behind a reported a new one
TailClean(a) ==
    (/\ results # <<>>
     /\ IsFinished(futures[results[1]])
     /\ \A j \in TopExecs : After(a, j) /\ executions[j].calls > 0 => ~HasError(futures[j]))
        => ~HasError(futures[results[1]])

\* C3 as stated: behind an Always step that ran after a failed step and finished
\* without an error, every GoodOnly step is invoked, an error-aware step receives the
\* zero Error, and the tail finishes without an error (no later step failing).
C3_Original ==
    \A a \in TopExecs :
        Recovered(a) =>
            /\ \A j \in TopExecs :
                  After(a, j) /\ executions[j].dispatched > 0 /\ CleanBetween(a, j)
                      => RecoveryHolds(a, j)
            /\ TailClean(a)

\* C3: the same, for the steps dispatched while no guarded object of the chain was
\* destroyed.
C3_AlwaysStepRecovers ==
    \A a \in TopExecs :
        Recovered(a) =>
            /\ \A j \in TopExecs :
                  (/\ After(a, j)
                   /\ executions[j].dispatched > 0
                   /\ CleanBetween(a, j)
                   /\ ~executions[j].deadAtDispatch) => RecoveryHolds(a, j)
            /\ TailClean(a)

C3_Witness ==
    /\ Len(chain) = 3
    /\ chain[3].flag = GoodCase
    /\ \E a \in TopExecs :
          /\ Recovered(a)
          /\ executions[a].errArg = Err(1)
          /\ results # <<>>
          /\ executions[results[1]].prevExecution = a
          /\ executions[results[1]].calls = 1
          /\ IsFinished(futures[results[1]])
          /\ ~HasError(futures[results[1]])

\* C4: an error-aware step with the Always flag whose predecessor has finished is
\* dispatched once and invoked at most once; when no guarded object of the chain was
\* destroyed at that moment it is invoked exactly once, with the predecessor's first
\* error when the predecessor has one and with the zero Error otherwise.
C4_ErrorAwareInvokedOnce ==
    \A e \in DOMAIN executions :
        LET p == executions[e].prevExecution
        IN  (ErrorAware(e) /\ executions[e].executor.flag = Always
                /\ p # 0 /\ IsFinished(futures[p])) =>
                /\ executions[e].dispatched = 1
                /\ executions[e].calls <= 1
                /\ ~executions[e].deadAtDispatch =>
                      /\ executions[e].calls = 1
                      /\ executions[e].errArg =
                            IF futures[p].errors # <<>> THEN futures[p].errors[1] ELSE Error(0, "")

C4_Witness ==
    \E e \in TopExecs : \E j \in TopExecs :
        /\ ErrorAware(e) /\ ErrorAware(j)
        /\ executions[e].calls = 1 /\ executions[j].calls = 1
        /\ executions[e].prevExecution # 0
        /\ futures[executions[e].prevExecution].errors = <<Err(1), Err2(1)>>
        /\ executions[e].errArg = Err(1)
        /\ executions[j].prevExecution = e
        /\ executions[j].errArg = NoError

\* an onError step whose predecessor finished without an error
OnErrorIdle(e) ==
    /\ executions[e].executor.cont = "OnError"
    /\ executions[e].prevExecution # 0
    /\ IsFinished(futures[executions[e].prevExecution])
    /\ ~HasError(futures[executions[e].prevExecution])

\* the onError step e did not call its handler and handed on the predecessor's value
ValueForwarded(e) ==
    LET p == executions[e].prevExecution
    IN  /\ executions[e].calls = 0
        /\ IsFinished(futures[e])
        /\ ~HasError(futures[e])
        /\ futures[e].value = futures[p].value
        /\ \A j \in TopExecs :
              executions[j].prevExecution = e /\ executions[j].calls > 0 =>
                  executions[j].inArg = futures[p].value

\* C5 as stated: an onError step whose predecessor finished without an error never
\* calls its handler, finishes without an error and carries the predecessor's value,
\* which is the value the next step receives.
C5_Original == \A e \in TopExecs : OnErrorIdle(e) => ValueForwarded(e)

\* C5: the same, for an onError step dispatched while no guarded object of the chain
\* was destroyed; in every case the handler is not called and the step finishes
\* without an error.
C5_OnErrorForwardsValue ==
    \A e \in TopExecs :
        OnErrorIdle(e) =>
            /\ executions[e].calls = 0
            /\ IsFinished(futures[e])
            /\ ~HasError(futures[e])
            /\ ~executions[e].deadAtDispatch => ValueForwarded(e)

C5_Witness ==
    \E e \in TopExecs : \E j \in TopExecs :
        /\ OnErrorIdle(e)
        /\ executions[e].dispatched = 1
        /\ executions[e].calls = 0
        /\ futures[e].value = 1
        /\ executions[j].prevExecution = e
        /\ executions[j].calls = 1
        /\ executions[j].inArg = 1

C7_GuardCancelsLaterSteps ==
    \A e \in TopExecs :
        /\ executions[e].dispatched > 0 /\ executions[e].deadAtDispatch =>
              /\ executions[e].calls = 0
              /\ IsFinished(futures[e])
              /\ futures[e].errors = <<>>
              /\ futures[e].value = NoValue
        /\ executions[e].outcome = "result" =>
              /\ IsFinished(futures[e])
              /\ futures[e].errors = <<>>
              /\ futures[e].value = executions[e].executor.val
        /\ executions[e].outcome = "error" =>
              IsFinished(futures[e]) /\ futures[e].errors = <<Err(executions[e].executor.val)>>

C7_Witness ==
    \E e \in TopExecs : \E j \in TopExecs :
        /\ executions[e].outcome = "result"
        /\ executions[e].deadAtDone
        /\ futures[e].value = executions[e].executor.val
        /\ executions[j].prevExecution = e
        /\ executions[j].dispatched = 1
        /\ executions[j].deadAtDispatch
        /\ alive["b"]
        /\ "b" \in contexts[1].guards
        /\ futures[j].value = NoValue

\* C8: a step of any flag that is dispatched after a guarded object of the chain was
\* destroyed, behind a predecessor that carries an error, is not invoked and finishes
\* with an empty error list; a tail dispatched that way never has an error.
C8_GuardBeforeErrorGate ==
    /\ \A e \in TopExecs :
          LET p == executions[e].prevExecution
          IN  (/\ executions[e].dispatched > 0
               /\ executions[e].deadAtDispatch
               /\ p # 0
               /\ HasError(futures[p])) =>
                  /\ executions[e].calls = 0
                  /\ IsFinished(futures[e])
                  /\ futures[e].errors = <<>>
    /\ (results # <<>> /\ executions[results[1]].deadAtDispatch) =>
          ~HasError(futures[results[1]])

C8_Witness ==
    /\ \E e \in TopExecs : \E j \in TopExecs :
          /\ executions[e].outcome = "error"
          /\ executions[j].prevExecution = e
          /\ executions[j].executor.flag = GoodCase
          /\ executions[j].dispatched = 1
          /\ executions[j].deadAtDispatch
          /\ futures[j].errors = <<>>
    /\ results # <<>>
    /\ executions[results[1]].executor.flag # GoodCase
    /\ executions[results[1]].deadAtDispatch
    /\ IsFinished(futures[results[1]])

\* no continuation of the chain defers the completion of its Future
NoDefer == \A i \in DOMAIN chain : chain[i].body # "defer" /\ chain[i].nested # "start"

\* C10: when every step finishes its Future before its continuation returns, the tail
\* Future is finished when exec() has returned, every step has been dispatched and
\* nothing waits for a later turn of the event loop.
C10_SynchronousChainIsDone ==
    (NoDefer /\ results # <<>>) =>
        /\ IsFinished(futures[results[1]])
        /\ pending = {}
        /\ \A e \in DOMAIN executions :
              /\ executions[e].dispatched = 1
              /\ IsFinished(futures[e])
              /\ \A k \in DOMAIN futures[e].watchers : futures[e].watchers[k] = NullWatcher

C10_Witness ==
    /\ NoDefer
    /\ results # <<>>
    /\ Len(chain) = 3
    /\ chain[1].cont = "Async"
    /\ chain[2].cont = "Sync"
    /\ chain[3].cont = "Job"
    /\ futures[results[1]].value = 13

\* ------------------------------------------------------------------ properties of one Future
\* C9: a finished Future never becomes pending again; setFinished on a finished Future
\* changes nothing and notifies nobody; every watcher bound while the Future was
\* pending has received futureReady exactly once when the Future is finished and not
\* at all before, whatever is called on the Future afterwards. It holds of SpecFuture,
\* whose slots leave the Future alone; under SpecBind a slot that binds to the Future
\* it is notified by breaks the third part (C33).
C9_FinishedIsFinal ==
    /\ [][IsFinished(futures[1]) => IsFinished(futures'[1])]_vars
    /\ [](IsFinished(futures[1]) => SetFinished(State, 1) = State)
    /\ [](\A w \in early : notified[w] = IF IsFinished(futures[1]) THEN 1 ELSE 0)

C9_Witness ==
    /\ IsFinished(futures[1])
    /\ late >= 2
    /\ early = 1 .. MaxWatchers
    /\ \A w \in early : notified[w] = 1
    /\ HasError(futures[1])
    /\ futures[1].value # NoValue

\* ------------------------------------------------------------------ nested jobs
\* the step's job continuation was invoked
JobStep(e) == executions[e].executor.cont \in {"Job", "JobError"} /\ executions[e].calls > 0

\* the tail Execution of the job the continuation of step e returned
NestedTail(e) ==
    CHOOSE n \in DOMAIN executions :
        \E t \in DOMAIN executions :
            executions[t].executor.target = e /\ executions[t].prevExecution = n

\* C11 as stated: the Future of a step with a job continuation is finished only when
\* the tail Future of the nested job is; it then carries the nested tail's value when
\* the nested tail has no error and the nested tail's first error otherwise; the next
\* outer step is dispatched only after the step's Future is finished.
C11_Original ==
    \A e \in DOMAIN executions :
        JobStep(e) =>
            /\ IsFinished(futures[e]) =>
                  /\ IsFinished(futures[NestedTail(e)])
                  /\ IF HasError(futures[NestedTail(e)])
                     THEN futures[e].errors = <<Head(futures[NestedTail(e)].errors)>>
                     ELSE ~HasError(futures[e])
                          /\ futures[e].value = futures[NestedTail(e)].value
            /\ \A j \in DOMAIN executions :
                  executions[j].prevExecution = e /\ executions[j].dispatched > 0 =>
                      IsFinished(futures[e])

\* C11: the Future of a step with a job continuation is finished exactly when the tail
\* Future of the nested job is; it carries the nested tail's first error when that
\* error has a non-zero code and the nested tail's value otherwise; the next outer
\* step is dispatched only after the step's Future is finished.
C11_NestedJobDrivesStep ==
    \A e \in DOMAIN executions :
        JobStep(e) =>
            /\ IsFinished(futures[e]) <=> IsFinished(futures[NestedTail(e)])
            /\ IsFinished(futures[e]) =>
                  IF HasError(futures[NestedTail(e)])
                     /\ Head(futures[NestedTail(e)].errors).errorCode # 0
                  THEN futures[e].errors = <<Head(futures[NestedTail(e)].errors)>>
                  ELSE ~HasError(futures[e])
                       /\ futures[e].value = futures[NestedTail(e)].value
            /\ \A j \in DOMAIN executions :
                  executions[j].prevExecution = e /\ executions[j].dispatched > 0 =>
                      IsFinished(futures[e])

C11_Witness ==
    \E e \in TopExecs : \E j \in TopExecs :
        /\ JobStep(e)
        /\ executions[NestedTail(e)].outcome = "multi"
        /\ futures[e].errors = <<Err(executions[e].executor.val + 10)>>
        /\ executions[j].prevExecution = e
        /\ executions[j].dispatched = 1
        /\ executions[j].calls = 1

\* ------------------------------------------------------------------ properties of Job handles
\* C12: whether or not the user still holds a Job or a Future, every Execution whose
\* Future is unfinished is alive together with its Executor, and every step whose
\* predecessor has finished has been dispatched, so a run goes on after all handles
\* were dropped.
C12_RunSurvivesDroppedHandles ==
    \A e \in DOMAIN executions :
        /\ ~IsFinished(futures[e]) =>
              ExecutionAlive(e) /\ ExecutorAlive(executions[e].executor)
        /\ (executions[e].prevExecution = 0 \/ IsFinished(futures[executions[e].prevExecution])) =>
              executions[e].dispatched = 1

C12_Witness ==
    /\ ~handles
    /\ \E e, j \in DOMAIN executions :
          /\ executions[e].orphanAtDone
          /\ executions[j].prevExecution = e
          /\ executions[j].calls = 1
          /\ executions[j].orphanAtDone
          /\ IsFinished(futures[j])

\* the Executors of the Jobs, each holding the values added to it with addToContext
JobExecutors == {chain[i] : i \in DOMAIN chain} \cup {other[i] : i \in DOMAIN other}

\* the Executions of the runs that contain Executor x
RunsWith(x) ==
    {e \in DOMAIN executions :
        \E u \in DOMAIN executions :
            executions[u].context = executions[e].context /\ executions[u].executor = x}

\* C13: the Executor that holds a context value is alive while a Job handle on its chain
\* exists or a run containing it has an unfinished Future, and it is released when the
\* handles are dropped and every such run has finished.
C13_ContextLivesWithJobAndRuns ==
    \A x \in JobExecutors :
        /\ (handles \/ \E e \in RunsWith(x) : ~IsFinished(futures[e])) => ExecutorAlive(x)
        /\ (~handles /\ \A e \in RunsWith(x) : IsFinished(futures[e])) => ~ExecutorAlive(x)

C13_Witness ==
    /\ ~handles
    /\ \E e \in DOMAIN executions : executions[e].orphanAtDone
    /\ \A e \in DOMAIN executions : IsFinished(futures[e])
    /\ \A x \in JobExecutors : ~ExecutorAlive(x)

\* the Executions of the run that exec call r started
RunOf(r) == {e \in DOMAIN executions : executions[e].context = executions[results[r]].context}

\* exec calls r1 and r2 ran the same steps, and the continuations of the same step
\* behaved the same way in both
SameRun(r1, r2) ==
    /\ {<<executions[e].step, executions[e].executor>> : e \in RunOf(r1)}
          = {<<executions[e].step, executions[e].executor>> : e \in RunOf(r2)}
    /\ \A e1 \in RunOf(r1) : \A e2 \in RunOf(r2) :
          executions[e1].step = executions[e2].step =>
              executions[e1].outcome = executions[e2].outcome

\* the guards were found in the same condition by the same step of both runs
SameGuards(r1, r2) ==
    \A e1 \in RunOf(r1) : \A e2 \in RunOf(r2) :
        executions[e1].step = executions[e2].step =>
            executions[e1].deadAtDispatch = executions[e2].deadAtDispatch

\* the tail Futures of exec calls r1 and r2 ended alike
SameTail(r1, r2) ==
    /\ futures[results[r1]].value = futures[results[r2]].value
    /\ futures[results[r1]].errors = futures[results[r2]].errors

\* every exec call has its own Executions, and one step of the program changes the
\* Futures of one run only and none when it is an exec call
SeparateRuns ==
    /\ [](\A r1, r2 \in DOMAIN results : r1 # r2 => RunOf(r1) \cap RunOf(r2) = {})
    /\ [][/\ \A f, g \in DOMAIN futures :
                (futures'[f] # futures[f] /\ futures'[g] # futures[g]) =>
                    executions[f].context = executions[g].context
          /\ Len(results') > Len(results) =>
                \A f \in DOMAIN futures : futures'[f] = futures[f]]_vars

\* C14 as stated: the runs are separate and, with continuations that behave the same
\* way, both tail Futures end with equal value and errors.
C14_Original ==
    /\ SeparateRuns
    /\ [](\A r1, r2 \in DOMAIN results :
            (IsFinished(futures[results[r1]]) /\ IsFinished(futures[results[r2]]) /\ SameRun(r1, r2))
                => SameTail(r1, r2))

\* C14: the runs are separate and, with continuations that behave the same way and
\* guarded objects that are in the same condition at each step, both tail Futures end
\* with equal value and errors.
C14_RunsAreIndependent ==
    /\ SeparateRuns
    /\ [](\A r1, r2 \in DOMAIN results :
            (/\ IsFinished(futures[results[r1]])
             /\ IsFinished(futures[results[r2]])
             /\ SameRun(r1, r2)
             /\ SameGuards(r1, r2))
                => SameTail(r1, r2))

C14_Witness ==
    \E r1, r2 \in DOMAIN results :
        /\ r1 # r2
        /\ IsFinished(futures[results[r1]])
        /\ IsFinished(futures[results[r2]])
        /\ SameRun(r1, r2)
        /\ SameGuards(r1, r2)
        /\ \E e1 \in RunOf(r1) : \E e2 \in RunOf(r2) :
              /\ e1 < e2
              /\ executions[e1].step = executions[e2].step
              /\ executions[e1].outcome = "error"
              /\ executions[e2].outcome = "error"
              /\ executions[e1].runsAtDone = Len(results)
        /\ HasError(futures[results[r1]])

\* exec call r was an exec(initial): its run starts with an injected head
Injected(r) ==
    \E e \in RunOf(r) :
        executions[e].step = 1 /\ executions[e].executor \in {InjectedHead(in) : in \in Initials}

\* the value exec call r was given
InitialOf(r) == executions[CHOOSE e \in RunOf(r) : executions[e].step = 1].executor.val

\* the Execution of the head step of the Job in the run of exec call r
HeadOf(r) == CHOOSE e \in RunOf(r) : executions[e].step = IF Injected(r) THEN 2 ELSE 1

\* C15: in a run started by exec(initial) the head step of the Job is called with exactly
\* that value and in a run started by exec() with none; when exec(initial) has returned
\* no injected head is linked to the chain, also while the run is pending.
C15_InitialReachesHeadOnly ==
    /\ [](injected = <<>>)
    /\ [](\A r \in DOMAIN results :
            LET head == executions[HeadOf(r)]
            IN  /\ head.executor = chain[1]
                /\ head.dispatched = 1
                /\ ~head.deadAtDispatch => head.calls = 1
                /\ head.calls > 0 =>
                      head.inArg = IF Injected(r) THEN InitialOf(r) ELSE NoValue)
    /\ [][Len(results') > Len(results) => chain' = chain]_vars

C15_Witness ==
    \E r1, r2 \in DOMAIN results :
        /\ r1 < r2
        /\ Injected(r1)
        /\ executions[HeadOf(r1)].inArg = 21
        /\ ~IsFinished(futures[results[r1]])
        /\ executions[HeadOf(r1)].runsAtDone = 0
        /\ ~Injected(r2)
        /\ executions[HeadOf(r2)].calls = 1
        /\ executions[HeadOf(r2)].inArg = NoValue

\* exec call r ran the Job that a.then(b) returned
Composed(r) ==
    split > 0 /\ Cardinality(RunOf(r)) = Len(chain) + IF Injected(r) THEN 1 ELSE 0

\* the Execution of step i of the Job in the run of exec call r
StepOf(r, i) ==
    CHOOSE e \in RunOf(r) : executions[e].step = i + IF Injected(r) THEN 1 ELSE 0

EachSteps(kind) ==
    {e \in DOMAIN executions : executions[e].executor.nested = kind /\ executions[e].calls > 0}

\* the list the for-each step e was called with
ValuesOf(e) == futures[executions[e].prevExecution].value

\* the runs of the inner Job that the for-each step e started, one ExecutionContext each
SubRuns(e) ==
    {c \in DOMAIN contexts :
        /\ \E r \in DOMAIN executions :
              executions[r].context = c /\ executions[r].executor.body = "record"
        /\ LET p == contexts[c].parent
           IN  IF executions[p].executor.body = "element"
               THEN contexts[executions[p].context].parent = e
               ELSE p = e}

\* the value exec(value) was called with for the run c
ElementOf(c) ==
    executions[CHOOSE x \in DOMAIN executions :
                   executions[x].context = c /\ executions[x].step = 1].executor.val

\* the Execution of the inner Job's step in the run c
InnerOf(c) ==
    CHOOSE h \in DOMAIN executions :
        executions[h].context = c /\ <<executions[h].executor>> \in InnerJobs

\* every Future of the run c is finished
SubRunDone(c) == \A x \in DOMAIN executions : executions[x].context = c => IsFinished(futures[x])

\* C17: a parallel forEach step starts the inner Job exactly once for every element of
\* its list, with that element as input, and none for an empty list; its Future is
\* finished only when every one of these runs is finished, and at once for an empty list.
C17_ForEachWaitsForAll ==
    \A e \in EachSteps("forEach") :
        /\ Cardinality(SubRuns(e)) = Len(ValuesOf(e))
        /\ \A i \in DOMAIN ValuesOf(e) :
              Cardinality({c \in SubRuns(e) : ElementOf(c) = ValuesOf(e)[i]}) = 1
        /\ \A c \in SubRuns(e) :
              executions[InnerOf(c)].calls = 1 /\ executions[InnerOf(c)].inArg = ElementOf(c)
        /\ IsFinished(futures[e]) => \A c \in SubRuns(e) : SubRunDone(c)
        /\ ValuesOf(e) = <<>> => IsFinished(futures[e])

C17_Witness ==
    \E e \in EachSteps("forEach") :
        /\ Len(ValuesOf(e)) = MaxList
        /\ IsFinished(futures[e])
        /\ \A c \in SubRuns(e) : executions[InnerOf(c)].outcome # "none"

\* the runs started by the for-each step e whose inner Job finished with an error, not
\* counting a first error of code zero
FailedRuns(e) == {c \in SubRuns(e) : ErrorCode(futures[InnerOf(c)]) # 0}

\* C18 as stated: when runs of the inner Job failed, the Future of the parallel forEach
\* step finishes with an error list that has one entry per failed element.
C18_Original ==
    \A e \in EachSteps("forEach") :
        (IsFinished(futures[e]) /\ FailedRuns(e) # {}) =>
            /\ HasError(futures[e])
            /\ Len(futures[e].errors) = Cardinality(FailedRuns(e))

\* the Executions of the element steps of the serialForEach step e, and the one of element i
ElementSteps(e) ==
    {x \in DOMAIN executions :
        executions[x].executor.body = "element" /\ contexts[executions[x].context].parent = e}

ElementStep(e, i) == CHOOSE x \in ElementSteps(e) : executions[x].step = i + 1

\* C19: a serialForEach step chains one element step per list entry in list order; the
\* inner Job of an element is started only when the element step before it is finished
\* and no Future of an inner Job started earlier is unfinished, after all earlier
\* elements were started, and in no state two runs of the inner Job are unfinished.
C19_SerialOneAtATime ==
    \A e \in EachSteps("serialForEach") :
        /\ Cardinality(ElementSteps(e)) = Len(ValuesOf(e))
        /\ \A i \in DOMAIN ValuesOf(e) :
              LET x == ElementStep(e, i)
              IN  /\ executions[x].executor.val = ValuesOf(e)[i]
                  /\ executions[x].calls > 0 =>
                        /\ executions[x].prevDoneAtCall
                        /\ \A f \in executions[x].openAtCall :
                              <<executions[f].executor>> \notin InnerJobs
                        /\ \A j \in 1 .. i - 1 :
                              /\ executions[ElementStep(e, j)].calls = 1
                              /\ \E c \in SubRuns(e) :
                                    contexts[c].parent = ElementStep(e, j) /\ SubRunDone(c)
        /\ Cardinality({c \in SubRuns(e) : ~SubRunDone(c)}) <= 1

C19_Witness ==
    \E e \in EachSteps("serialForEach") :
        /\ Len(ValuesOf(e)) = MaxList
        /\ \E c \in SubRuns(e) :
              /\ contexts[c].parent = ElementStep(e, 1)
              /\ executions[InnerOf(c)].outcome = "result"
        /\ \E c \in SubRuns(e) :
              /\ contexts[c].parent = ElementStep(e, 2)
              /\ executions[InnerOf(c)].calls = 1
              /\ ~SubRunDone(c)
        /\ executions[ElementStep(e, MaxList)].calls = 0

\* the run of the inner Job for element i of the serialForEach step e
RunOfElement(e, i) == CHOOSE c \in SubRuns(e) : contexts[c].parent = ElementStep(e, i)

\* element i of the serialForEach step e was started and its run is finished
ElementDone(e, i) ==
    /\ executions[ElementStep(e, i)].calls = 1
    /\ \E c \in SubRuns(e) : contexts[c].parent = ElementStep(e, i) /\ SubRunDone(c)

\* an error does not stop the iteration of the serialForEach step e
IterationGoesOn(e) ==
    /\ \A i \in DOMAIN ValuesOf(e) :
          (i > 1 /\ ElementDone(e, i - 1)) => executions[ElementStep(e, i)].calls = 1
    /\ IsFinished(futures[e]) => \A i \in DOMAIN ValuesOf(e) : ElementDone(e, i)

\* C20 as stated: the iteration goes on after an error, and the step finishes with the
\* error of the first element whose inner Job finished with an error, or without error.
C20_Original ==
    \A e \in EachSteps("serialForEach") :
        /\ IterationGoesOn(e)
        /\ IsFinished(futures[e]) =>
              LET failing == {i \in DOMAIN ValuesOf(e) :
                                 HasError(futures[InnerOf(RunOfElement(e, i))])}
              IN  IF failing = {}
                  THEN ~HasError(futures[e])
                  ELSE LET first == CHOOSE i \in failing : \A j \in failing : i <= j
                       IN  futures[e].errors
                               = <<Head(futures[InnerOf(RunOfElement(e, first))].errors)>>

\* C20: the iteration goes on after an error, and the step finishes with the first error
\* of the first element whose inner Job finished with a first error of non-zero code, or
\* without error if there is no such element.
C20_SerialKeepsFirstError ==
    \A e \in EachSteps("serialForEach") :
        /\ IterationGoesOn(e)
        /\ IsFinished(futures[e]) =>
              LET failing == {i \in DOMAIN ValuesOf(e) :
                                 ErrorCode(futures[InnerOf(RunOfElement(e, i))]) # 0}
              IN  IF failing = {}
                  THEN ~HasError(futures[e])
                  ELSE LET first == CHOOSE i \in failing : \A j \in failing : i <= j
                       IN  futures[e].errors
                               = <<Head(futures[InnerOf(RunOfElement(e, first))].errors)>>

C20_Witness ==
    \E e \in EachSteps("serialForEach") :
        /\ Len(ValuesOf(e)) = MaxList
        /\ IsFinished(futures[e])
        /\ executions[InnerOf(RunOfElement(e, 1))].outcome = "result"
        /\ executions[InnerOf(RunOfElement(e, 2))].outcome = "error"
        /\ executions[InnerOf(RunOfElement(e, MaxList))].outcome = "multi"
        /\ futures[e].errors = <<Err(2)>>

\* ------------------------------------------------------------------ properties of waitForCompletion
\* the Executions of waitForCompletion Jobs whose continuation was called
WaitSteps == {w \in DOMAIN executions : executions[w].executor.body = "wait" /\ executions[w].calls > 0}

\* the Futures the waitForCompletion Job of Execution w was made for
InputsOf(w) == executions[w].executor.list

\* every input Future of w is finished
InputsDone(w) == \A i \in DOMAIN InputsOf(w) : IsFinished(futures[InputsOf(w)[i]])

\* the number of times the step behind w was dispatched by the futureReady of w's Future
ReadySignals(w) ==
    LET next == {x \in DOMAIN executions : executions[x].prevExecution = w}
    IN  IF next = {} THEN 0 ELSE executions[CHOOSE x \in next : TRUE].dispatched

\* C21: in every state the Future of a waitForCompletion run is finished exactly when
\* every one of its input Futures is finished (an empty list included), it is finished
\* without error, and the step waiting for it was dispatched once if it is finished and
\* not at all otherwise.
C21_WaitFinishesWithLastInput ==
    \A w \in WaitSteps :
        /\ IsFinished(futures[w]) <=> InputsDone(w)
        /\ ~HasError(futures[w])
        /\ ReadySignals(w) = IF IsFinished(futures[w]) THEN 1 ELSE 0
        /\ executions[w].calls = 1

C21_Witness ==
    \E w \in WaitSteps :
        /\ Len(InputsOf(w)) = MaxList
        /\ IsFinished(futures[w])
        /\ \A i \in DOMAIN InputsOf(w) :
              executions[executions[InputsOf(w)[i]].prevExecution].outcome # "none"
        /\ ReadySignals(w) = 1

\* ------------------------------------------------------------------ properties of dowhile
\* the Executions of dowhile Jobs whose continuation was called
Loops == {l \in DOMAIN executions : executions[l].executor.body = "while" /\ executions[l].calls > 0}

\* the Executions of the lambdas chained behind the body for the loop l, one per invocation
Callbacks(l) ==
    {cb \in DOMAIN executions :
        executions[cb].executor.body = "whileCallback" /\ executions[cb].executor.target = l}

\* the Executions of the body of the loop l, one per invocation
Rounds(l) == {executions[cb].prevExecution : cb \in Callbacks(l)}

\* the Execution that called asyncWhile for the invocation b: the loop or a lambda
StartedBy(b) == contexts[executions[b].context].parent

\* the invocations made from the lambda behind the invocation b
NextRounds(l, b) == {n \in Rounds(l) : StartedBy(n) \in Callbacks(l) /\ executions[StartedBy(n)].prevExecution = b}

\* the body Job of the invocation b finished without error with the result true (go on)
Continues(b) == IsFinished(futures[b]) /\ ~HasError(futures[b]) /\ futures[b].value = BoolValue(TRUE)

\* the body Job of the invocation b finished without error with the result false (stop)
Breaks(b) == IsFinished(futures[b]) /\ ~HasError(futures[b]) /\ futures[b].value = BoolValue(FALSE)

\* C22: the body of a dowhile loop is called once when the loop starts and once more from
\* the lambda behind every invocation whose Job finished without error with the result to
\* go on, and from nowhere else; the lambda runs when that Job is finished, so no two
\* invocations are unfinished together; the loop's Future is finished, without error,
\* exactly when an invocation returned the result to stop, and then the body was called
\* once more than the number of results to go on.
C22_LoopRunsUntilBreak ==
    \A l \in Loops :
        /\ Cardinality({b \in Rounds(l) : StartedBy(b) = l}) = 1
        /\ \A b \in Rounds(l) :
              /\ executions[b].calls = 1
              /\ Cardinality(NextRounds(l, b)) = IF Continues(b) THEN 1 ELSE 0
              /\ StartedBy(b) # l =>
                    /\ StartedBy(b) \in Callbacks(l)
                    /\ executions[StartedBy(b)].prevDoneAtCall
                    /\ executions[StartedBy(b)].inArg = BoolValue(TRUE)
        /\ Cardinality({b \in Rounds(l) : ~IsFinished(futures[b])}) <= 1
        /\ IsFinished(futures[l]) <=> \E b \in Rounds(l) : Breaks(b)
        /\ ~HasError(futures[l])
        /\ (\E b \in Rounds(l) : Breaks(b)) =>
              Cardinality(Rounds(l)) = 1 + Cardinality({b \in Rounds(l) : Continues(b)})

C22_Witness ==
    \E l \in Loops :
        /\ IsFinished(futures[l])
        /\ Cardinality(Rounds(l)) = MaxRounds
        /\ \A b \in Rounds(l) : executions[b].outcome = "result"
        /\ Cardinality({b \in Rounds(l) : Continues(b)}) = MaxRounds - 1

\* C23 as stated: when the Job of one invocation of the body finished with an error (of
\* non-zero code), the body is not called again and the loop's Future is finished and
\* carries that error.
C23_Original ==
    \A l \in Loops : \A b \in Rounds(l) :
        (IsFinished(futures[b]) /\ ErrorCode(futures[b]) # 0) =>
            /\ NextRounds(l, b) = {}
            /\ IsFinished(futures[l])
            /\ HasError(futures[l])
            /\ ErrorCode(futures[l]) = ErrorCode(futures[b])

\* ------------------------------------------------------------------ properties of setError and setValue
\* the step is a call of setError(error) on the Future
SetErrorCalled(error) == Call(SetError(State, 1, error))

\* C24 as stated: setError(e) appends e to the error list, behind the errors recorded
\* before, and the Future is finished afterwards.
C24_Original ==
    [][\A error \in Errors :
          SetErrorCalled(error) =>
              /\ futures'[1].errors = Append(futures[1].errors, error)
              /\ IsFinished(futures'[1])]_vars

\* C24: setError(e) leaves e as the only entry of the error list, whatever was recorded
\* before with addError, and the Future is finished afterwards; nothing else of the
\* Future changes.
C24_SetErrorReplaces ==
    [][\A error \in Errors :
          SetErrorCalled(error) =>
              /\ futures'[1].errors = <<error>>
              /\ IsFinished(futures'[1])
              /\ futures'[1].value = futures[1].value]_vars

C24_Witness ==
    /\ IsFinished(futures[1])
    /\ late = 0
    /\ futures[1].found = MaxErrors
    /\ futures[1].errors = <<Err(2)>>

\* ------------------------------------------------------------------ properties of each
\* the each steps that were run
CollectSteps == {e \in DOMAIN executions : executions[e].executor.cont = "Each" /\ executions[e].calls > 0}

\* the Futures EachExecutor::run made for the elements of the step e, and the one at position i
ElementsOf(e) ==
    {x \in DOMAIN executions :
        executions[x].executor.target = e /\ executions[x].executor.cont = "Async"}

ElementAt(e, i) == CHOOSE x \in ElementsOf(e) : executions[x].step = i

\* the positions of the elements of the step e in the order in which their Futures finished
FinishOrder(e) == cells[CHOOSE k \in DOMAIN cells : cells[k].future = e].order

RECURSIVE Assemble(_, _)
\* the outputs of the elements of e at the given positions, one after the other
Assemble(e, order) ==
    IF order = <<>>
    THEN <<>>
    ELSE futures[ElementAt(e, Head(order))].value \o Assemble(e, Tail(order))

\* the outputs of the elements of e in input order
InInputOrder(e) == [i \in DOMAIN ValuesOf(e) |-> ValuesOf(e)[i] + 1]

\* every element of e has finished without error
AllCollected(e) ==
    \A x \in ElementsOf(e) : IsFinished(futures[x]) /\ ~HasError(futures[x])

\* C25 as stated: when every element Future has finished without error, the value of the
\* each step is the list of the outputs in input order.
C25_Original ==
    \A e \in CollectSteps : AllCollected(e) => futures[e].value = InInputOrder(e)

\* C25: the each step makes one Future per element; its value is the list of the outputs
\* of the finished elements in the order in which their Futures finished, which is input
\* order when they finished in input order, as they do when the task finishes every
\* Future at once.
C25_EachAssemblesInFinishOrder ==
    \A e \in CollectSteps :
        LET order == FinishOrder(e)
        IN  /\ Cardinality(ElementsOf(e)) = Len(ValuesOf(e))
            /\ \A i \in DOMAIN ValuesOf(e) : executions[ElementAt(e, i)].inArg = ValuesOf(e)[i]
            /\ {order[j] : j \in DOMAIN order}
                  = {i \in DOMAIN ValuesOf(e) : IsFinished(futures[ElementAt(e, i)])}
            /\ \A j \in DOMAIN order : \A h \in DOMAIN order : order[j] = order[h] => j = h
            /\ futures[e].value = Assemble(e, order)
            /\ (AllCollected(e) /\ \A j \in DOMAIN order : order[j] = j) =>
                  futures[e].value = InInputOrder(e)
            /\ executions[e].executor.body = "plusOne" => futures[e].value = InInputOrder(e)

C25_Witness ==
    \E e \in CollectSteps :
        /\ Len(ValuesOf(e)) = MaxList
        /\ AllCollected(e)
        /\ IsFinished(futures[e])
        /\ FinishOrder(e)[1] = MaxList
        /\ FinishOrder(e)[MaxList] = 1
        /\ futures[e].value[1] = MaxList + 1


\* ------------------------------------------------------------------ properties of the Executor graph
\* the Executors a Job was constructed with (a, b and c are never reassigned)
Built(h) == CASE h = "a" -> {1, 2} [] h = "b" -> {3} [] h = "c" -> {4} [] OTHER -> {}

\* the chain of the Job q, given the mPrev links prev
ChainOf(prev, q) == ChainIn(prev, executors.mExecutor[q], Cardinality(Nodes))

\* the steps exec call r ran, the injected head apart
StepsRun(r) ==
    {executions[e].executor : e \in RunOf(r)} \ {InjectedHead(in) : in \in Initials}

\* every exec call on a, b or c ran the steps that Job was constructed with
RunsOwnSteps ==
    \A r \in DOMAIN results :
        executors.runs[r] \in {"a", "b", "c"}
            => StepsRun(r) = {NodeExecutor(n) : n \in Built(executors.runs[r])}

\* C26 as stated: p.then(q) on two Jobs leaves the chain of q as it was, and an
\* exec() of a Job runs the steps that Job was constructed with, whatever then(Job)
\* calls came before.
C26_Original ==
    [][/\ \A p \in Handles : \A q \in Handles :
              ThenJobCalled(p, q) => ChainOf(executors'.mPrev, q) = ChainOf(executors.mPrev, q)
       /\ RunsOwnSteps']_vars

\* C27 as stated: after any sequence of then(continuation), then(Job), onError and
\* exec(initial) calls the mPrev links form no cycle: the walk from every Executor
\* reaches a head.
C27_Original == \A n \in Nodes : Acyclic(executors.mPrev, n)


\* C28 as stated: when exec(initial2) is called from a continuation that runs inside an
\* exec(initial1) on the same Executors (serialForEach starts the next element from the
\* record lambda of the element before), the head step of each run receives the value
\* passed to its own exec call, and no injected head is left once the calls returned.
C28_Original ==
    /\ \A e \in EachSteps("serialForEach") : \A c \in SubRuns(e) :
          executions[InnerOf(c)].calls > 0 => executions[InnerOf(c)].inArg = ElementOf(c)
    /\ injected = <<>>


\* C29 as stated: once the Future is finished, the value and the error list its
\* observers read do not change any more, whatever setValue, setResult, setError,
\* addError or clearErrors calls follow.
C29_Original ==
    [][IsFinished(futures[1]) =>
           /\ futures'[1].value = futures[1].value
           /\ futures'[1].errors = futures[1].errors]_vars


\* C30 as stated: an Error with code zero means no error: for every Future hasError()
\* is true exactly when errorCode() is non-zero, and a GoodCase step whose predecessor
\* finished with a zero-code Error is run like after a success.
C30_Original ==
    /\ \A f \in DOMAIN futures : HasError(futures[f]) <=> ErrorCode(futures[f]) # 0
    /\ \A j \in DOMAIN executions :
          LET p == executions[j].prevExecution
          IN  (/\ p # 0
               /\ executions[j].executor.flag = GoodCase
               /\ executions[j].dispatched > 0
               /\ ~executions[j].deadAtDispatch
               /\ ErrorCode(futures[p]) = 0) => executions[j].calls > 0


\* C31 as stated: whenever a GoodCase step forwards the error of its predecessor, the
\* predecessor's Future holds exactly one error: Q_ASSERT(prevFuture->errors().size() == 1)
\* of runExecution never fails, however the continuation filled its Future with
\* setError and addError.
C31_Original == assertOk


\* the step e was short-circuited: not invoked, finished, no error and no value
GuardCut(e) ==
    /\ executions[e].calls = 0
    /\ IsFinished(futures[e])
    /\ futures[e].errors = <<>>
    /\ futures[e].value = NoValue

\* the step e went through the error gate: it was invoked, or it took over the first
\* error or the value of its predecessor
Gated(e) ==
    LET p == executions[e].prevExecution
    IN  \/ executions[e].calls > 0
        \/ /\ p # 0
           /\ executions[e].executor.flag = GoodCase
           /\ HasError(futures[p])
           /\ futures[e].errors = <<Head(futures[p].errors)>>
        \/ /\ p # 0
           /\ executions[e].executor.flag = ErrorCase
           /\ ~HasError(futures[p])
           /\ futures[e].errors = <<>>
           /\ futures[e].value = futures[p].value

\* C32: a step is short-circuited if, at its dispatch, some object guarded by any
\* Executor of the chain was destroyed, whichever Executor guards it (the head too is
\* cut by an object that only the tail guards), and goes through the error gate
\* otherwise; after exec() the context holds the guards of all Executors of the chain.
C32_GuardsOfWholeChain ==
    /\ \A e \in TopExecs :
          executions[e].dispatched > 0 =>
              IF executions[e].deadAtDispatch THEN GuardCut(e) ELSE Gated(e)
    /\ \A c \in DOMAIN contexts : contexts[c].guards = contexts[c].chainGuards

C32_Witness ==
    /\ Len(chain) = 3
    /\ chain[1].mGuards = {}
    /\ chain[2].mGuards = {}
    /\ chain[3].mGuards = {"a"}
    /\ ~alive["a"]
    /\ \E e \in TopExecs :
          /\ executions[e].step = 1
          /\ executions[e].dispatched = 1
          /\ executions[e].deadAtDispatch
          /\ GuardCut(e)

\* ------------------------------------------------------------------ properties of binding late
\* the user watchers whose slot binds another watcher to the Future, and the watcher
\* the slot of such a watcher binds
Binders == MaxWatchers + 1 .. 2 * MaxWatchers
BoundBy(w) == w + MaxWatchers

\* the program has not read from a released block
Intact == futures[1].buffer # "torn"

\* the user watchers bound after the Future finished
BoundLate ==
    {w \in 1 .. MaxWatchers :
        /\ w \notin early
        /\ \E k \in DOMAIN futures[1].watchers : futures[1].watchers[k] = UserWatcher(w)}

\* the watchers bound by a slot that ran while setFinished was notifying
BoundBelowLoop == {BoundBy(b) : b \in {x \in Binders : notified[x] > 0}}

\* C33 as stated: a watcher bound to a finished Future has received futureReady exactly
\* once, from the bind itself, also when the bind was made by a futureReady slot of the
\* same Future, and the notification that was under way then goes on over the watchers
\* of the Future
C33_Original ==
    /\ \A w \in BoundLate \cup BoundBelowLoop : notified[w] = 1
    /\ \A w \in 1 .. 3 * MaxWatchers : notified[w] <= 1
    /\ Intact

\* ------------------------------------------------------------------ termination of a run
\* C34: when every invoked continuation finishes its output Future and every nested
\* job finishes, the tail Future of a run becomes finished, whichever steps the error
\* gate or a destroyed guard skips.
C34_TailEventuallyFinished ==
    (results # <<>>) ~> (results # <<>> /\ IsFinished(futures[results[1]]))

\* a finished three-step run in which the head completed late with an error and the
\* two steps behind it, dispatched after a guarded object was destroyed, were skipped
C34_Witness ==
    /\ results # <<>>
    /\ IsFinished(futures[results[1]])
    /\ pending = {}
    /\ \E e1, e2, e3 \in TopExecs :
          /\ executions[e1].step = 1 /\ executions[e2].step = 2 /\ executions[e3].step = 3
          /\ executions[e1].outcome = "error"
          /\ executions[e2].dispatched = 1 /\ executions[e2].calls = 0
          /\ executions[e3].dispatched = 1 /\ executions[e3].calls = 0
          /\ executions[e3].deadAtDispatch

\* ------------------------------------------------------------------ one dispatch per step
\* the Executions of run r: those of the context the tail of r belongs to
RunSteps(r) == {e \in DOMAIN executions : executions[e].context = executions[results[r]].context}

\* C35: in a run every step is dispatched at most once while the run is under way and
\* exactly once when its tail Future is finished, and its continuation is invoked at
\* most once, whatever a continuation calls on its finished output Future afterwards;
\* the same holds of the runs of nested jobs.
C35_OneDispatchPerStep ==
    /\ \A e \in DOMAIN executions :
          /\ executions[e].dispatched <= 1
          /\ executions[e].calls <= executions[e].dispatched
          /\ IsFinished(futures[e]) => executions[e].dispatched = 1
    /\ \A r \in DOMAIN results :
          IsFinished(futures[results[r]]) => \A e \in RunSteps(r) : executions[e].dispatched = 1

\* a finished three-step run whose asynchronous head called setError on its finished
\* Future twice more
C35_Witness ==
    /\ late = 2
    /\ results # <<>>
    /\ IsFinished(futures[results[1]])
    /\ Cardinality(RunSteps(1)) = 3
    /\ \E e \in RunSteps(1) :
          /\ executions[e].step = 1
          /\ executions[e].calls = 1
          /\ executions[e].outcome = "result"
          /\ HasError(futures[e])
    /\ \E e \in RunSteps(1) : executions[e].step = 3 /\ executions[e].calls = 1

\* ------------------------------------------------------------------ guards and nested jobs
\* the Executions that run the lambda executeJobAndApply puts behind a nested job
ApplySteps == {e \in DOMAIN executions : executions[e].executor.body = "apply"}

\* C36: the run of a nested job has an ExecutionContext of its own, which holds the
\* guards of the nested job only; its steps are dispatched through the error gate also
\* after a guarded object of the outer chain was destroyed, so the outer step is
\* finished by the nested run, and the outer steps dispatched after the destruction
\* are short-circuited.
C36_NestedRunHasOwnContext ==
    /\ \A e \in ApplySteps :
          LET outer == executions[e].executor.target
              c == executions[e].context
          IN  /\ c # executions[outer].context
              /\ contexts[c].parent = outer
              /\ contexts[c].guards =
                    UNION {executions[n].executor.mGuards :
                              n \in {m \in DOMAIN executions : executions[m].context = c}}
              /\ \A n \in DOMAIN executions :
                    executions[n].context = c /\ executions[n].dispatched > 0 =>
                        ~executions[n].deadAtDispatch /\ Gated(n)
              /\ executions[e].dispatched > 0 =>
                    executions[e].calls = 1 /\ IsFinished(futures[outer])
    /\ \A e \in TopExecs :
          executions[e].dispatched > 0 /\ executions[e].deadAtDispatch => GuardCut(e)

\* the head of a nested job completed after the guarded object of the outer chain was
\* destroyed: the lambda behind it was invoked and finished the outer step, and the
\* outer step behind that one was short-circuited
C36_Witness ==
    \E e \in ApplySteps : \E t \in TopExecs :
        /\ executions[e].prevExecution # 0
        /\ executions[executions[e].prevExecution].outcome = "result"
        /\ executions[executions[e].prevExecution].deadAtDone
        /\ executions[e].calls = 1
        /\ executions[t].prevExecution = executions[e].executor.target
        /\ futures[executions[e].executor.target].value # NoValue
        /\ executions[t].dispatched = 1
        /\ executions[t].deadAtDispatch
        /\ GuardCut(t)

\* ------------------------------------------------------------------ properties of wait
\* C37 as stated: the runs of one wait(delay) Job do not interfere: the step in which
\* the Future of a run becomes finished is the expiry of the timer that run started,
\* the lambda of a run is called once, and no expiry touches the Future of a run that
\* has ended
C37_Original ==
    /\ [](\A r \in DOMAIN notified : notified[r] <= 1)
    /\ [](\A f \in DOMAIN futures : futures[f].buffer # "torn")
    /\ [][\A f \in DOMAIN futures :
            ~IsFinished(futures[f]) /\ IsFinished(futures'[f]) => cells[1].future = f]_vars

\* ------------------------------------------------------------------ properties of the context object
\* C38 as stated: over all exec() calls on a Job of waitForCompletion and all orders in
\* which the inputs finish, the context object is deleted at most once and nothing is
\* done with it after its deletion
C38_Original ==
    /\ cells[1].count <= 1
    /\ cells[1].total = 0
    /\ cells[1].buffer # "torn"

\* ------------------------------------------------------------------ properties of ContinuationHolder
\* the index the text gives each continuation variant
VariantIndex ==
    [T \in {Tuple[k] : k \in DOMAIN Tuple} |->
        CASE T = "Async" -> 0 [] T = "AsyncError" -> 1 [] T = "Sync" -> 2
          [] T = "SyncError" -> 3 [] T = "Job" -> 4 [] T = "JobError" -> 5]

\* C39: a ContinuationHolder built from a continuation of variant k, and not moved
\* since, has index k in the order Async 0, AsyncError 1, Sync 2, SyncError 3, Job 4,
\* JobError 5; is<T>() is true for that type and false for the five others; get<T>()
\* gives the stored continuation for that type and throws bad_cast for the others.
C39_HolderHoldsItsVariant ==
    \A h \in DOMAIN holders :
        holders[h].fresh /\ holders[h].state = "live" =>
            /\ holders[h].mIndex = VariantIndex[holders[h].built]
            /\ \A T \in DOMAIN VariantIndex :
                  /\ Is(holders[h], T) <=> T = holders[h].built
                  /\ Get(holders[h], T) = IF T = holders[h].built THEN holders[h].built ELSE "bad_cast"

\* holders built from a JobError, a Sync and an Async continuation
C39_Witness ==
    /\ Len(holders) = 3
    /\ \A h \in DOMAIN holders : holders[h].fresh /\ holders[h].state = "live"
    /\ holders[1].built = "JobError" /\ holders[1].mIndex = 5
    /\ holders[2].built = "Sync" /\ holders[2].mIndex = 2
    /\ holders[3].built = "Async" /\ Get(holders[3], "Async") = "Async"
    /\ Get(holders[3], "Sync") = "bad_cast"

\* C40 as stated: after any sequence of constructions, move constructions and move
\* assignments the index of every holder is Invalid or names the type of the object
\* that lives in its storage, no destructor or move has worked on an object of another
\* type, and no object is written over without being destroyed
C40_Original ==
    \A h \in DOMAIN holders :
        /\ holders[h].state = "live" =>
              \/ holders[h].mIndex = Invalid
              \/ /\ holders[h].mIndex \in 0 .. Len(Tuple) - 1
                 /\ holders[h].mStorage = Tuple[holders[h].mIndex + 1]
        /\ ~holders[h].wrong
        /\ holders[h].lost = 0
        /\ holders[h].state # "torn"

====
